---- MODULE Spec2Model ----
(***************************************************************************)
(* A model of the hyper template transpiler (rust/transpiler).             *)
(*                                                                         *)
(* The tokenizer (src/parser/tokenizer.rs) is modelled character by        *)
(* character; its section below says how.                                  *)
(*                                                                         *)
(* The tree builder (src/parser/tree_builder.rs) is a recursive descent    *)
(* over a token vector with one token of lookahead.  It is modelled as a   *)
(* state machine whose `stack` holds one frame per active Rust call of a   *)
(* parse_until_* loop (or of build), and whose actions consume one token   *)
(* each, exactly as the loops and parse_node do.                           *)
(*                                                                         *)
(* A Span is modelled by the index of the token that owns it (the lexer    *)
(* gives every token its own span) plus the index of an attribute inside   *)
(* the tag (0 for the tag itself).                                         *)
(***************************************************************************)
EXTENDS Integers, Sequences, FiniteSets, TLC

VARIABLES source, position, in_multiline_string, pc, locals,
          tokens, pos, in_header, element_stack, stack, result,
          ast, options, output, generated, gen_pc,
          transformer, daemon, transpiler

\* the fields and control state of the Tokenizer, and those of the TreeBuilder
tokenizer == <<source, position, in_multiline_string, pc, locals>>
parser == <<pos, in_header, element_stack, stack, result>>
\* the arguments, the Output buffer and the result of PythonGenerator::generate
generator == <<ast, options, output, generated, gen_pc>>

vars == <<tokenizer, tokens, parser, generator, transformer, daemon, transpiler>>

\* no generation is running
GeneratorIdle ==
    /\ ast = <<>>
    /\ options = <<>>
    /\ output = <<>>
    /\ generated = <<>>
    /\ gen_pc = "idle"

\* no Transformer has been built, the daemon and the line-based transpile are not running
TransformerIdle == transformer = <<>>
DaemonIdle == daemon = <<>>
TranspilerIdle == transpiler = <<>>

(***************************************************************************)
(* Option<T>: None is the empty sequence, Some(x) the one-element one.     *)
(***************************************************************************)
None == <<>>
Some(x) == <<x>>
IsSome(o) == Len(o) = 1

Span(i, j) == [tok |-> i, attr |-> j]

RECURSIVE SeqsUpTo(_, _)
SeqsUpTo(S, n) ==
    IF n = 0 THEN {<<>>}
    ELSE LET shorter == SeqsUpTo(S, n - 1)
         IN  shorter \cup {Append(s, x) : s \in {q \in shorter : Len(q) = n - 1}, x \in S}

(***************************************************************************)
(* html.rs: element classification tables                                  *)
(***************************************************************************)
VOID_ELEMENTS ==
    {"area", "base", "br", "col", "embed", "hr", "img", "input",
     "link", "meta", "param", "source", "track", "wbr"}

AUTO_CLOSE_ELEMENTS == {"p"}

BLOCK_ELEMENTS ==
    {"address", "article", "aside", "blockquote", "details", "dialog",
     "dd", "div", "dl", "dt", "fieldset", "figcaption", "figure",
     "footer", "form", "h1", "h2", "h3", "h4", "h5", "h6",
     "header", "hgroup", "hr", "li", "main", "nav", "ol", "p",
     "pre", "section", "table", "ul"}

INTERACTIVE_ELEMENTS == {"a", "button"}

\* str::to_ascii_lowercase on the tag names the model draws
to_ascii_lowercase(tag) ==
    CASE tag = "BR" -> "br"
      [] tag = "Hr" -> "hr"
      [] tag = "P" -> "p"
      [] tag = "DIV" -> "div"
      [] tag = "A" -> "a"
      [] OTHER -> tag

\* (mutation of is_void_element: the comparison is case-sensitive)
is_void_element_nocase(tag) == tag \in VOID_ELEMENTS
is_void_element(tag) == to_ascii_lowercase(tag) \in VOID_ELEMENTS
is_auto_close_element(tag) == to_ascii_lowercase(tag) \in AUTO_CLOSE_ELEMENTS
is_block_element(tag) == to_ascii_lowercase(tag) \in BLOCK_ELEMENTS
is_interactive_element(tag) == to_ascii_lowercase(tag) \in INTERACTIVE_ELEMENTS

(***************************************************************************)
(* Tokens (tokenizer.rs, enum Token).  One record shape for all kinds:     *)
(*   t     the variant                                                     *)
(*   k     keyword / tag / component name / slot name ("" is None)         *)
(*   sc    self_closing                                                    *)
(*   attrs the tag's attributes, each [kind, name]                         *)
(*   code  the text of a statement or the `rest` of a control line, as a   *)
(*         sequence of characters                                          *)
(***************************************************************************)
Tok(t, k) == [t |-> t, k |-> k, sc |-> FALSE, attrs |-> <<>>, code |-> <<>>]
Tag(t, k, sc, attrs) == [t |-> t, k |-> k, sc |-> sc, attrs |-> attrs, code |-> <<>>]
Line(t, k, code) == [t |-> t, k |-> k, sc |-> FALSE, attrs |-> <<>>, code |-> code]

EofTok == Tok("Eof", "")

Attr(kind, name) == [kind |-> kind, name |-> name]

(***************************************************************************)
(* Character-level helpers for the &str operations the parser uses         *)
(***************************************************************************)
IsWhitespace(c) == c \in {" ", "\t", "\n", "\r"}

RECURSIVE TrimStart(_)
TrimStart(s) == IF s # <<>> /\ IsWhitespace(Head(s)) THEN TrimStart(Tail(s)) ELSE s

RECURSIVE TrimEnd(_)
TrimEnd(s) ==
    IF s # <<>> /\ IsWhitespace(s[Len(s)]) THEN TrimEnd(SubSeq(s, 1, Len(s) - 1)) ELSE s

Trim(s) == TrimEnd(TrimStart(s))

StartsWith(s, p) == Len(s) >= Len(p) /\ SubSeq(s, 1, Len(p)) = p

\* str::find for a pattern: the first index (1-based) where p occurs, 0 if none
Find(s, p) ==
    LET hits == {i \in 1..(Len(s) - Len(p) + 1) : SubSeq(s, i, i + Len(p) - 1) = p}
    IN  IF hits = {} THEN 0 ELSE CHOOSE i \in hits : \A j \in hits : i <= j

Contains(s, p) == Find(s, p) # 0

(***************************************************************************)
(* The tokenizer (src/parser/tokenizer.rs).                                *)
(*                                                                         *)
(* `source` is the input as a sequence of characters, `position` the byte  *)
(* offset of Tokenizer::position (every character the model draws is one   *)
(* byte long; line and column are not modelled).  The loops whose body is  *)
(* a bare advance() are operators that return the offset they stop at;     *)
(* every other loop is a state machine: `pc` names the function whose      *)
(* loop is running and `locals` holds that function's local variables.     *)
(* Tokens are recorded by variant and span.                                *)
(***************************************************************************)
Token(t, s, e) == [t |-> t, start |-> s, end |-> e]
\* Token::PythonStatement { code, span }
StatementToken(code, s, e) == [t |-> "PythonStatement", start |-> s, end |-> e, code |-> code]

Alphabetic == {"a", "b", "c", "d", "e", "f", "g", "h", "i", "j", "k", "l", "m", "n", "o", "p", "q", "r", "s", "t", "u", "v", "w", "x", "y", "z"} \cup {"A", "B", "C", "D", "E", "F", "G", "H", "I", "J", "K", "L", "M", "N", "O", "P", "Q", "R", "S", "T", "U", "V", "W", "X", "Y", "Z"}
Digits == {"0", "1", "2", "3", "4", "5", "6", "7", "8", "9"}
Alphanumeric == Alphabetic \cup Digits

EndsWith(s, p) == Len(s) >= Len(p) /\ SubSeq(s, Len(s) - Len(p) + 1, Len(s)) = p
From(s, i) == SubSeq(s, i, Len(s))

\* Tokenizer::at_eof, at_newline, peek_char, peek_next_char, advance
at_eof(p) == p >= Len(source)
char_at(p) == source[p + 1]
at_newline(p) == ~at_eof(p) /\ char_at(p) \in {"\n", "\r"}
peek_char(p) == IF at_eof(p) THEN None ELSE Some(char_at(p))
peek_next_char(p) == IF p + 1 >= Len(source) THEN None ELSE Some(source[p + 2])
advance(p) == IF at_eof(p) THEN p ELSE p + 1

\* Tokenizer::consume_indent: the offset after the leading spaces and tabs
consume_indent(p) ==
    LET loop[q \in Nat] ==
            IF ~at_eof(q) /\ char_at(q) \in {" ", "\t"} THEN loop[advance(q)] ELSE q
    IN  loop[p]

\* (mutation of consume_newline: the newline is not consumed)
consume_newline_none(p) == p
\* Tokenizer::consume_newline
consume_newline(p) ==
    LET q == IF peek_char(p) = Some("\r") THEN advance(p) ELSE p
    IN  IF peek_char(q) = Some("\n") THEN advance(q) ELSE q

\* Tokenizer::skip_to_eol and consume_to_eol stop at the same offset
skip_to_eol(p) ==
    LET loop[q \in Nat] == IF ~at_eof(q) /\ ~at_newline(q) THEN loop[advance(q)] ELSE q
    IN  loop[p]

consume_to_eol(p) == skip_to_eol(p)

\* Tokenizer::peek_line
peek_line(p) == SubSeq(source, p + 1, skip_to_eol(p))

\* Tokenizer::skip_whitespace_inline
skip_whitespace_inline(p) ==
    LET loop[q \in Nat] ==
            IF ~at_eof(q) /\ ~at_newline(q) /\ char_at(q) \in {" ", "\t"}
            THEN loop[advance(q)]
            ELSE q
    IN  loop[p]

\* Tokenizer::consume_until_char, `depth` its local brace counter
consume_until_char(p, stop) ==
    LET loop[q \in Nat, depth \in Int] ==
            IF at_eof(q) THEN q
            ELSE LET ch == char_at(q)
                     opened == IF ch = "{" THEN depth + 1 ELSE depth
                 IN  IF ch = "}" /\ opened = 0 /\ stop = "}" THEN q
                     ELSE LET d == IF ch = "}" THEN opened - 1 ELSE opened
                          IN  IF ch = stop /\ d = 0 THEN q
                              ELSE loop[advance(q), d]
    IN  loop[p, 0]

\* Tokenizer::consume_while, the predicate given as the set of characters it accepts
consume_while(p, accepted) ==
    LET loop[q \in Nat] ==
            IF ~at_eof(q) /\ ~at_newline(q) /\ char_at(q) \in accepted
            THEN loop[advance(q)]
            ELSE q
    IN  loop[p]

\* the `Skip to >` loops of the close-tag and slot functions
SkipToGt(p, stop_at_newline) ==
    LET loop[q \in Nat] ==
            IF ~at_eof(q) /\ peek_char(q) # Some(">") /\ ~(stop_at_newline /\ at_newline(q))
            THEN loop[advance(q)]
            ELSE q
    IN  loop[p]

PastGt(p) == IF peek_char(p) = Some(">") THEN advance(p) ELSE p

\* advance() called n times in a row
AdvanceBy(p, n) ==
    LET loop[q \in Nat, left \in Nat] == IF left = 0 THEN q ELSE loop[advance(q), left - 1]
    IN  loop[p, n]

(***************************************************************************)
(* Classification helpers                                                  *)
(***************************************************************************)
is_end_keyword(line) == Trim(line) = <<"e", "n", "d">>

\* Tokenizer::strip_trailing_comment
strip_trailing_comment(line) ==
    LET loop[i \in Nat, in_single \in BOOLEAN, in_double \in BOOLEAN] ==
            IF i > Len(line) THEN line
            ELSE LET b == line[i]
                 IN  IF b = "\"" /\ ~in_single THEN loop[i + 1, in_single, ~in_double]
                     ELSE IF b = "'" /\ ~in_double THEN loop[i + 1, ~in_single, in_double]
                     ELSE IF b = "\\" /\ (in_single \/ in_double)
                          THEN loop[i + 1, in_single, in_double]
                     ELSE IF b = "#" /\ ~in_single /\ ~in_double /\ i > 1 /\ line[i - 1] = " "
                          THEN TrimEnd(SubSeq(line, 1, i - 1))
                     ELSE loop[i + 1, in_single, in_double]
    IN  loop[1, FALSE, FALSE]

StartsWithAny(s, prefixes) == \E t \in {s} : \E p \in prefixes : StartsWith(t, p)
ContainsAny(s, patterns) == \E t \in {s} : \E p \in patterns : Contains(t, p)

\* Tokenizer::is_control_flow
is_control_flow(line) ==
    \E trimmed \in {Trim(line)} : \E effective \in {strip_trailing_comment(trimmed)} :
        IF StartsWithAny(trimmed, {<<"f", "o", "r", " ">>, <<"a", "s", "y", "n", "c", " ", "f", "o", "r", " ">>})
        THEN EndsWith(effective, <<":">>)
        ELSE IF StartsWithAny(trimmed, {<<"i", "f", " ">>, <<"w", "h", "i", "l", "e", " ">>, <<"m", "a", "t", "c", "h", " ">>, <<"w", "i", "t", "h", " ">>, <<"a", "s", "y", "n", "c", " ", "w", "i", "t", "h", " ">>})
        THEN EndsWith(effective, <<":">>)
        ELSE IF trimmed \in {<<"t", "r", "y", ":">>, <<"t", "r", "y", " ", ":">>}
        THEN TRUE
        ELSE IF StartsWithAny(trimmed, {<<"d", "e", "f", " ">>, <<"a", "s", "y", "n", "c", " ", "d", "e", "f", " ">>})
        THEN Contains(effective, <<"(">>)
        ELSE IF StartsWith(trimmed, <<"c", "l", "a", "s", "s", " ">>)
        THEN LET rest == From(trimmed, 7)
             IN  /\ rest # <<>>
                 /\ rest[1] \in Alphabetic \cup {"_"}
                 /\ EndsWith(effective, <<":">>)
        ELSE FALSE

\* Tokenizer::is_parameter_declaration (the tokenizer's own)
tokenizer_is_parameter_declaration(line) ==
    \E trimmed \in {Trim(line)} :
    LET colon_pos == Find(trimmed, <<":">>)
        equals_pos == Find(trimmed, <<"=">>)
    IN  IF ~Contains(trimmed, <<":">>) THEN FALSE
        ELSE IF StartsWith(trimmed, <<"*">>) THEN TRUE
        ELSE IF trimmed[1] \in Alphabetic \cup {"_"}
             THEN (IF equals_pos # 0 THEN colon_pos < equals_pos ELSE TRUE)
        ELSE FALSE

\* Tokenizer::is_control_continuation
is_control_continuation(line) ==
    StartsWithAny(Trim(line), {<<"e", "l", "s", "e", ":">>, <<"e", "l", "s", "e", " ", ":">>, <<"e", "l", "i", "f", " ">>, <<"e", "x", "c", "e", "p", "t">>, <<"f", "i", "n", "a", "l", "l", "y", ":">>, <<"f", "i", "n", "a", "l", "l", "y", " ", ":">>, <<"c", "a", "s", "e", " ">>})

\* Tokenizer::is_css_at_rule
is_css_at_rule(line) ==
    StartsWithAny(Trim(line), {<<"@", "m", "e", "d", "i", "a">>, <<"@", "k", "e", "y", "f", "r", "a", "m", "e", "s">>, <<"@", "i", "m", "p", "o", "r", "t">>, <<"@", "c", "h", "a", "r", "s", "e", "t">>, <<"@", "f", "o", "n", "t", "-", "f", "a", "c", "e">>, <<"@", "s", "u", "p", "p", "o", "r", "t", "s">>, <<"@", "n", "a", "m", "e", "s", "p", "a", "c", "e">>, <<"@", "p", "a", "g", "e">>, <<"@", "c", "o", "u", "n", "t", "e", "r", "-", "s", "t", "y", "l", "e">>, <<"@", "l", "a", "y", "e", "r">>, <<"@", "p", "r", "o", "p", "e", "r", "t", "y">>, <<"@", "c", "o", "n", "t", "a", "i", "n", "e", "r">>, <<"@", "s", "c", "o", "p", "e">>})

\* Tokenizer::calculate_bracket_depth; i is the position of `chars`
calculate_bracket_depth(code) ==
    LET loop[i \in Nat, depth \in Nat, in_string \in BOOLEAN, string_char \in STRING,
             in_triple_string \in BOOLEAN] ==
            IF i > Len(code) THEN depth
            ELSE LET ch == code[i]
                     peek1 == IF i + 1 <= Len(code) THEN Some(code[i + 1]) ELSE None
                     peek2 == IF i + 2 <= Len(code) THEN Some(code[i + 2]) ELSE None
                     newline == {j \in (i + 1)..Len(code) : code[j] = "\n"}
                     after_comment ==
                         IF newline = {} THEN Len(code) + 1
                         ELSE 1 + CHOOSE j \in newline : \A h \in newline : j <= h
                 IN  IF in_string
                     THEN IF ch = "\\" /\ ~in_triple_string
                          THEN loop[i + 2, depth, TRUE, string_char, FALSE]
                          ELSE IF in_triple_string
                          THEN IF ch = string_char /\ peek1 = Some(string_char)
                               THEN IF peek2 = Some(string_char)
                                    THEN loop[i + 3, depth, FALSE, string_char, FALSE]
                                    ELSE loop[i + 2, depth, TRUE, string_char, TRUE]
                               ELSE loop[i + 1, depth, TRUE, string_char, TRUE]
                          ELSE loop[i + 1, depth, ch # string_char, string_char, FALSE]
                     ELSE IF ch \in {"\"", "'"}
                          THEN IF peek1 = Some(ch)
                               THEN IF peek2 = Some(ch)
                                    THEN loop[i + 3, depth, TRUE, ch, TRUE]
                                    ELSE loop[i + 2, depth, FALSE, string_char, in_triple_string]
                               ELSE loop[i + 1, depth, TRUE, ch, FALSE]
                          ELSE IF ch = "#"
                          THEN loop[after_comment, depth, FALSE, string_char, in_triple_string]
                          ELSE IF ch \in {"(", "[", "{"}
                          THEN loop[i + 1, depth + 1, FALSE, string_char, in_triple_string]
                          ELSE IF ch \in {")", "]", "}"}
                          THEN loop[i + 1, IF depth - 1 > 0 THEN depth - 1 ELSE 0,
                                    FALSE, string_char, in_triple_string]
                          ELSE loop[i + 1, depth, FALSE, string_char, in_triple_string]
    IN  loop[1, 0, FALSE, " ", FALSE]

\* Tokenizer::looks_like_multiline_start
looks_like_multiline_start(trimmed) ==
    /\ calculate_bracket_depth(trimmed) > 0
    /\ trimmed # <<>> /\ trimmed[1] \in Alphabetic \cup {"_"}
    /\ \/ Contains(trimmed, <<" ", "=", " ">>) \/ Contains(trimmed, <<":", " ">>)
       \/ Contains(trimmed, <<"(">>) /\ ~Contains(trimmed, <<")">>)

\* Tokenizer::is_obviously_content (of its punctuation characters the
\* backquote, which a TLA+ string cannot hold, is left out)
is_obviously_content(trimmed) ==
    IF trimmed = <<>> THEN TRUE
    ELSE IF StartsWithAny(trimmed, {<<"\"", "\"", "\"">>, <<"'", "'", "'">>}) THEN FALSE
    ELSE IF trimmed[1] \in {"<", ">", "&", "!", "?", "/", "*", "+", "-", ".", ",", ";", ":", "[", "]", "(", ")", "\"", "'", "~", "^", "%", "$", "|"} \cup Digits \cup {"A", "B", "C", "D", "E", "F", "G", "H", "I", "J", "K", "L", "M", "N", "O", "P", "Q", "R", "S", "T", "U", "V", "W", "X", "Y", "Z"}
    THEN TRUE
    ELSE LET colon == Find(trimmed, <<":", " ">>)
             name == Trim(SubSeq(trimmed, 1, colon - 1))
             needs_parsing ==
                 \/ ContainsAny(trimmed, {<<" ", "=", " ">>, <<" ", "+", "=", " ">>, <<" ", "-", "=", " ">>, <<" ", "*", "=", " ">>, <<" ", "/", "=", " ">>, <<" ", "/", "/", "=", " ">>, <<" ", "%", "=", " ">>, <<" ", "*", "*", "=", " ">>, <<" ", "&", "=", " ">>, <<" ", "|", "=", " ">>, <<" ", "^", "=", " ">>, <<" ", ">", ">", "=", " ">>, <<" ", "<", "<", "=", " ">>, <<" ", ":", "=", " ">>})
                 \/ /\ colon # 0
                    /\ \E n \in {name} :
                          /\ n # <<>>
                          /\ n[1] \in Alphabetic \cup {"_"}
                          /\ \A c \in 1..Len(n) : n[c] \in Alphanumeric \cup {"_"}
                 \/ StartsWithAny(trimmed, {<<"i", "m", "p", "o", "r", "t", " ">>, <<"f", "r", "o", "m", " ">>, <<"r", "e", "t", "u", "r", "n", " ">>, <<"r", "e", "t", "u", "r", "n", "\n">>, <<"r", "a", "i", "s", "e", " ">>, <<"r", "a", "i", "s", "e", "\n">>, <<"a", "s", "s", "e", "r", "t", " ">>, <<"d", "e", "l", " ">>, <<"g", "l", "o", "b", "a", "l", " ">>, <<"n", "o", "n", "l", "o", "c", "a", "l", " ">>, <<"y", "i", "e", "l", "d", " ">>, <<"y", "i", "e", "l", "d", "\n">>, <<"a", "w", "a", "i", "t", " ">>})
                 \/ trimmed \in {<<"r", "e", "t", "u", "r", "n">>, <<"r", "a", "i", "s", "e">>, <<"p", "a", "s", "s">>, <<"b", "r", "e", "a", "k">>, <<"c", "o", "n", "t", "i", "n", "u", "e">>, <<"y", "i", "e", "l", "d">>}
                 \/ /\ trimmed[1] \in {"a", "b", "c", "d", "e", "f", "g", "h", "i", "j", "k", "l", "m", "n", "o", "p", "q", "r", "s", "t", "u", "v", "w", "x", "y", "z"}
                    /\ Contains(trimmed, <<"(">>) /\ Contains(trimmed, <<")">>)
         IN  ~needs_parsing

\* Tokenizer::is_python_statement: the set of answers it can give.  The
\* verdict of the tree-sitter parse is not modelled: where the function
\* reaches it, both answers are possible.
is_python_statement(line) ==
    UNION {IF trimmed = <<>> THEN {FALSE}
           ELSE IF is_obviously_content(trimmed) THEN {FALSE}
           ELSE IF StartsWithAny(trimmed, {<<"c", "l", "a", "s", "s", " ", "=">>, <<"c", "l", "a", "s", "s", "=">>}) THEN {TRUE}
           ELSE IF looks_like_multiline_start(trimmed) THEN {TRUE}
           ELSE BOOLEAN : trimmed \in {Trim(line)}}

\* Tokenizer::is_html_assignment
is_html_assignment(line) ==
    \E trimmed \in {Trim(line)} : \E eq_pos \in {Find(trimmed, <<" ", "=", " ">>)} :
    /\ eq_pos # 0
    /\ \E after_eq \in {TrimStart(From(trimmed, eq_pos + 3))},
          before_eq \in {Trim(SubSeq(trimmed, 1, eq_pos - 1))} :
       \E colon_pos \in {Find(before_eq, <<":">>)} :
       \E identifier \in {IF colon_pos # 0 THEN Trim(SubSeq(before_eq, 1, colon_pos - 1))
                           ELSE before_eq} :
          /\ StartsWith(after_eq, <<"<">>)
          /\ ~StartsWith(after_eq, <<"<", "=">>) /\ ~StartsWith(after_eq, <<"<", "<">>)
          /\ identifier # <<>>
          /\ identifier[1] \in Alphabetic \cup {"_"}
          /\ \A c \in 1..Len(identifier) : identifier[c] \in Alphanumeric \cup {"_"}

\* Tokenizer::is_html_element_start, is_html_element_close, is_component_close
is_html_element_start(p) ==
    /\ peek_char(p) = Some("<")
    /\ p + 1 < Len(source)
    /\ source[p + 2] \in Alphabetic

is_html_element_close(p) ==
    /\ peek_char(p) = Some("<")
    /\ p + 2 < Len(source)
    /\ source[p + 2] = "/" /\ source[p + 3] \in Alphabetic

is_component_close(p) ==
    /\ peek_char(p) = Some("<")
    /\ p + 2 < Len(source)
    /\ source[p + 2] = "/" /\ source[p + 3] = "{"

\* str::matches(delimiter).count(): occurrences that do not overlap
CountMatches(s, delimiter) ==
    LET count[rest \in Seq(STRING)] ==
            LET at == Find(rest, delimiter)
            IN  IF at = 0 THEN 0 ELSE 1 + count[From(rest, at + Len(delimiter))]
    IN  count[s]

(***************************************************************************)
(* The branch tokenize_line takes for a line (step 4, `ORDER MATTERS`).    *)
(* A set, because is_python_statement can answer either way.               *)
(***************************************************************************)
LineBranches(line) ==
    UNION {
        IF trimmed = <<"-", "-", "-">> THEN {"Separator"}
        ELSE IF StartsWith(line_content, <<"#">>) THEN {"Comment"}
        ELSE IF /\ StartsWith(line_content, <<"@">>)
                /\ ~Contains(line_content, <<"<">>)
                /\ ~is_css_at_rule(line_content)
        THEN {"Decorator"}
        ELSE IF StartsWith(line_content, <<"<", "{", ".", ".", ".">>) THEN {"SlotOpen"}
        ELSE IF StartsWith(line_content, <<"<", "/", "{", ".", ".", ".">>) THEN {"SlotClose"}
        ELSE IF StartsWith(line_content, <<"<", "{">>) THEN {"ComponentOpen"}
        ELSE IF StartsWith(line_content, <<"<", "/", "{">>) THEN {"ComponentClose"}
        ELSE IF is_end_keyword(line_content) THEN {"End"}
        ELSE IF StartsWith(trimmed, <<"f", "r", "a", "g", "m", "e", "n", "t", " ">>) /\ EndsWith(trimmed, <<":">>)
        THEN {"FragmentStart"}
        ELSE IF is_control_flow(line_content) THEN {"ControlStart"}
        ELSE IF is_control_continuation(line_content) THEN {"ControlContinuation"}
        ELSE IF StartsWith(line_content, <<"<">>) THEN {"content"}
        ELSE IF is_html_assignment(line_content) THEN {"html_assignment"}
        ELSE IF tokenizer_is_parameter_declaration(line_content) THEN {"python_statement"}
        ELSE {IF answer THEN "python_statement" ELSE "content" :
                 answer \in is_python_statement(line_content)}
        : line_content \in {line}, trimmed \in {Trim(line)}}

(***************************************************************************)
(* Functions that emit one token and whose loops only advance: the offset  *)
(* they end at.                                                            *)
(***************************************************************************)
\* Tokenizer::tokenize_slot_open, tokenize_slot_close, tokenize_component_close
tokenize_slot_open(p) ==
    PastGt(SkipToGt(advance(consume_until_char(AdvanceBy(p, 5), "}")), FALSE))

tokenize_slot_close(p) ==
    PastGt(SkipToGt(advance(consume_until_char(AdvanceBy(p, 6), "}")), FALSE))

tokenize_component_close(p) ==
    PastGt(SkipToGt(advance(consume_until_char(AdvanceBy(p, 3), "}")), FALSE))

TagNameChars == Alphabetic \cup Digits \cup {"-", "_"}

\* Tokenizer::tokenize_html_element_close
tokenize_html_element_close(p) ==
    PastGt(SkipToGt(consume_while(AdvanceBy(p, 2), TagNameChars), TRUE))

\* Tokenizer::tokenize_expression; string_char is "" while not in a string
tokenize_expression(p) ==
    LET loop[q \in Nat, depth \in Int, string_char \in STRING] ==
            IF at_eof(q) \/ depth <= 0 THEN q
            ELSE LET ch == char_at(q)
                 IN  IF string_char # ""
                     THEN IF ch = "\\"
                          THEN loop[advance(advance(q)), depth, string_char]
                          ELSE loop[advance(q), depth,
                                    IF ch = string_char THEN "" ELSE string_char]
                     ELSE IF ch \in {"\"", "'"} THEN loop[advance(q), depth, ch]
                     ELSE IF ch = "{" THEN loop[advance(q), depth + 1, ""]
                     ELSE IF ch = "}" THEN loop[advance(q), depth - 1, ""]
                     ELSE loop[advance(q), depth, ""]
    IN  loop[advance(p), 1, ""]

AttrNameChars == Alphanumeric \cup {"_", "-", "@", ":"}

\* Tokenizer::parse_attribute: Some(offset after the attribute), or None
parse_attribute(p) ==
    IF at_eof(p) THEN None
    ELSE IF char_at(p) = "{"
    THEN LET q == advance(p)
         IN  IF peek_char(q) = Some("*") /\ peek_next_char(q) = Some("*")
             THEN Some(advance(consume_until_char(AdvanceBy(q, 2), "}")))
             ELSE IF peek_char(q) = Some(".")
             THEN Some(advance(consume_until_char(AdvanceBy(q, 3), "}")))
             ELSE Some(advance(consume_until_char(q, "}")))
    ELSE IF char_at(p) \in Alphabetic \cup {"_", "-", "@", ":"}
    THEN LET q == consume_while(p, AttrNameChars)
             v == advance(q)
         IN  IF peek_char(q) # Some("=") THEN Some(q)
             ELSE IF peek_char(v) = Some("{")
             THEN Some(advance(consume_until_char(advance(v), "}")))
             ELSE IF peek_char(v) = Some("\"")
             THEN Some(advance(consume_until_char(advance(v), "\"")))
             ELSE IF peek_char(v) = Some("'")
             THEN Some(advance(consume_until_char(advance(v), "'")))
             ELSE Some(v)
    ELSE None

(***************************************************************************)
(* Tokenizer state                                                         *)
(***************************************************************************)
NoLocals ==
    [indent_start |-> 0, start |-> 0, quote_ctx |-> "None", text_buf |-> <<>>,
     text_start |-> 0, after_structural |-> FALSE, code |-> <<>>]

TokenizerIdle ==
    /\ source = <<>>
    /\ position = 0
    /\ in_multiline_string = None
    /\ pc = "idle"
    /\ locals = NoLocals

\* step 5 of tokenize_line: the newline that ends the line
LineTail(toks, p) ==
    IF at_newline(p)
    THEN [tokens |-> Append(toks, Token("Newline", p, consume_newline(p))),
          position |-> consume_newline(p)]
    ELSE [tokens |-> toks, position |-> p]

\* the pass over the line is over: back in the loop of tokenize
EndLine(toks, p) ==
    /\ tokens' = LineTail(toks, p).tokens
    /\ position' = LineTail(toks, p).position
    /\ pc' = "tokenize"

\* steps 1 and 2 of tokenize_line
AtLine == pc = "tokenize" /\ ~at_eof(position)
AfterIndent == consume_indent(position)
WithIndent ==
    IF AfterIndent > position
    THEN Append(tokens, Token("Indent", position, AfterIndent))
    ELSE tokens
Blank == at_eof(AfterIndent) \/ at_newline(AfterIndent)
line_content == peek_line(AfterIndent)
StartsString == StartsWithAny(Trim(line_content), {<<"\"", "\"", "\"">>, <<"'", "'", "'">>})
Classified == AtLine /\ ~Blank /\ in_multiline_string = None /\ ~StartsString

flush(toks, ls, p) ==
    IF ls.text_buf # <<>> THEN Append(toks, Token("Text", ls.text_start, p)) ELSE toks

\* the locals of tokenize_content at its start
ContentLocals(ls, p) ==
    [ls EXCEPT !.quote_ctx = "None", !.text_buf = <<>>, !.text_start = p,
               !.after_structural = TRUE]

\* the locals of tokenize_content after a structural token
AfterStructural(ls, p) ==
    [ls EXCEPT !.text_buf = <<>>, !.text_start = p, !.after_structural = TRUE]

(***************************************************************************)
(* Inputs: every concatenation of up to MaxPieces pieces.                  *)
(***************************************************************************)
MaxPieces == 3

Pieces ==
    {<<"\n">>,
     <<"\r">>,
     <<" ">>,
     <<"a">>,
     <<"<">>,
     <<">">>,
     <<"/">>,
     <<"{">>,
     <<"}">>,
     <<"\"">>,
     <<"=">>,
     <<" ", "#">>,
     <<"<", "{", "a", "}">>,
     <<"<", "{", ".", ".", ".">>,
     <<"<", "/", "{">>,
     <<"\"", "\"", "\"">>,
     <<" ", "=", " ">>,
     <<"<", "a", " ">>,
     <<"a", ":", "{">>,
     <<"e", "n", "d">>}

RECURSIVE Concat(_)
Concat(ps) == IF ps = <<>> THEN <<>> ELSE Head(ps) \o Concat(Tail(ps))

Sources == {Concat(ps) : ps \in SeqsUpTo(Pieces, MaxPieces)}

(***************************************************************************)
(* Actions of the tokenizer                                                *)
(***************************************************************************)
\* tokenize_line, step 2: only indentation before the end of input, or an
\* empty line
LineBlank ==
    /\ AtLine /\ Blank
    /\ IF at_eof(AfterIndent)
       THEN /\ tokens' = WithIndent
            /\ position' = AfterIndent
       ELSE /\ tokens' = Append(WithIndent,
                           Token("Newline", AfterIndent, consume_newline(AfterIndent)))
            /\ position' = consume_newline(AfterIndent)
    /\ locals' = [locals EXCEPT !.indent_start = position]
    /\ UNCHANGED <<generator, transformer, daemon, transpiler, source, in_multiline_string, pc, parser>>

\* tokenize_line, step 3: a line inside a multi-line string
LineInString ==
    /\ AtLine /\ ~Blank /\ in_multiline_string # None
    /\ in_multiline_string' =
          IF Contains(line_content, in_multiline_string[1]) THEN None
          ELSE in_multiline_string
    /\ EndLine(Append(WithIndent,
                      Token("PythonStatement", AfterIndent, skip_to_eol(AfterIndent))),
               skip_to_eol(AfterIndent))
    /\ locals' = [locals EXCEPT !.indent_start = position]
    /\ UNCHANGED <<generator, transformer, daemon, transpiler, source, parser>>

\* tokenize_line, step 4: a line that starts with a triple quote
LineStringStart ==
    /\ AtLine /\ ~Blank /\ in_multiline_string = None /\ StartsString
    /\ \E trimmed \in {Trim(line_content)} :
       LET delimiter == IF StartsWith(trimmed, <<"\"", "\"", "\"">>) THEN <<"\"", "\"", "\"">> ELSE <<"'", "'", "'">>
       IN  in_multiline_string' =
              IF CountMatches(trimmed, delimiter) = 1 THEN Some(delimiter) ELSE None
    /\ EndLine(Append(WithIndent,
                      Token("PythonStatement", AfterIndent, skip_to_eol(AfterIndent))),
               skip_to_eol(AfterIndent))
    /\ locals' = [locals EXCEPT !.indent_start = position]
    /\ UNCHANGED <<generator, transformer, daemon, transpiler, source, parser>>

\* tokenize_line, the branches that emit one token for the line
LineToken ==
    /\ Classified
    /\ \E branch \in LineBranches(line_content) :
          /\ branch \notin {"ComponentOpen", "content", "python_statement"}
          /\ LET p == AfterIndent
                 end == CASE branch = "SlotOpen" -> tokenize_slot_open(p)
                          [] branch = "SlotClose" -> tokenize_slot_close(p)
                          [] branch = "ComponentClose" -> tokenize_component_close(p)
                          [] branch \in {"Separator", "End"} -> skip_to_eol(p)
                          [] OTHER -> consume_to_eol(p)
                 kind == IF branch = "html_assignment" THEN "PythonStatement" ELSE branch
             IN  EndLine(Append(WithIndent, Token(kind, p, end)), end)
    /\ locals' = [locals EXCEPT !.indent_start = position]
    /\ UNCHANGED <<generator, transformer, daemon, transpiler, source, in_multiline_string, parser>>

\* tokenize_line calls tokenize_component_open, which reads the name
LineComponentOpen ==
    /\ Classified
    /\ "ComponentOpen" \in LineBranches(line_content)
    /\ tokens' = WithIndent
    /\ position' = advance(consume_until_char(AdvanceBy(AfterIndent, 2), "}"))
    /\ pc' = "tokenize_component_open"
    /\ locals' = [locals EXCEPT !.indent_start = position, !.start = AfterIndent]
    /\ UNCHANGED <<generator, transformer, daemon, transpiler, source, in_multiline_string, parser>>

\* tokenize_line calls tokenize_content
LineContent ==
    /\ Classified
    /\ "content" \in LineBranches(line_content)
    /\ tokens' = WithIndent
    /\ position' = AfterIndent
    /\ pc' = "tokenize_content"
    /\ locals' = ContentLocals([locals EXCEPT !.indent_start = position], AfterIndent)
    /\ UNCHANGED <<generator, transformer, daemon, transpiler, source, in_multiline_string, parser>>

\* tokenize_line calls tokenize_python_statement, which reads the first line
LineStatement ==
    /\ Classified
    /\ "python_statement" \in LineBranches(line_content)
    /\ tokens' = WithIndent
    /\ position' = consume_to_eol(AfterIndent)
    /\ pc' = "tokenize_python_statement"
    /\ locals' = [locals EXCEPT !.indent_start = position, !.start = AfterIndent,
                                !.code = line_content]
    /\ UNCHANGED <<generator, transformer, daemon, transpiler, source, in_multiline_string, parser>>

\* tokenize_python_statement: one turn of the continuation loop
StatementContinue ==
    /\ pc = "tokenize_python_statement"
    /\ calculate_bracket_depth(locals.code) > 0 /\ ~at_eof(position)
    /\ LET p1 == IF at_newline(position) THEN consume_newline(position) ELSE position
           code1 == IF at_newline(position) THEN Append(locals.code, "\n") ELSE locals.code
           p2 == skip_whitespace_inline(p1)
           code2 == code1 \o SubSeq(source, p1 + 1, p2)
       IN  IF at_eof(p2) \/ at_newline(p2)
           THEN /\ position' = p2
                /\ locals' = [locals EXCEPT !.code = code2]
           ELSE /\ position' = consume_to_eol(p2)
                /\ locals' = [locals EXCEPT !.code = code2 \o peek_line(p2)]
    /\ UNCHANGED <<generator, transformer, daemon, transpiler, source, in_multiline_string, tokens, pc, parser>>

\* tokenize_python_statement: the loop is over, the token is pushed
StatementDone ==
    /\ pc = "tokenize_python_statement"
    /\ ~(calculate_bracket_depth(locals.code) > 0 /\ ~at_eof(position))
    /\ EndLine(Append(tokens, StatementToken(locals.code, locals.start, position)), position)
    /\ locals' = [locals EXCEPT !.code = <<>>]
    /\ UNCHANGED <<generator, transformer, daemon, transpiler, source, in_multiline_string, parser>>

InContent == pc = "tokenize_content" /\ ~at_eof(position) /\ ~at_newline(position)

IsTrailingComment ==
    /\ locals.quote_ctx = "None" /\ char_at(position) = "#"
    /\ locals.after_structural
    /\ locals.text_buf # <<>>
    /\ \A c \in 1..Len(locals.text_buf) : IsWhitespace(locals.text_buf[c])

IsElementOpen ==
    /\ locals.quote_ctx = "None" /\ char_at(position) = "<"
    /\ ~IsTrailingComment
    /\ is_html_element_start(position)

\* tokenize_content: one turn of the loop, every arm but the trailing
\* comment and the element open tag
ContentChar ==
    /\ InContent /\ ~IsTrailingComment /\ ~IsElementOpen
    /\ LET ch == char_at(position)
           q == locals.quote_ctx
           text == Append(locals.text_buf, ch)
           flushed == flush(tokens, locals, position)
           structural(kind, end) ==
               /\ tokens' = Append(flushed, Token(kind, position, end))
               /\ position' = end
               /\ locals' = AfterStructural(locals, end)
       IN  IF q = "None" /\ ch = "\""
           THEN /\ position' = advance(position)
                /\ locals' = [locals EXCEPT !.text_buf = text, !.quote_ctx = "Double",
                                            !.after_structural = FALSE]
                /\ tokens' = tokens
           ELSE IF q = "Double" /\ ch = "\""
           THEN /\ position' = advance(position)
                /\ locals' = [locals EXCEPT !.text_buf = text, !.quote_ctx = "None"]
                /\ tokens' = tokens
           ELSE IF q = "None" /\ ch = "'"
           THEN /\ position' = advance(position)
                /\ locals' = [locals EXCEPT !.text_buf = text, !.quote_ctx = "Single",
                                            !.after_structural = FALSE]
                /\ tokens' = tokens
           ELSE IF q = "Single" /\ ch = "'"
           THEN /\ position' = advance(position)
                /\ locals' = [locals EXCEPT !.text_buf = text, !.quote_ctx = "None"]
                /\ tokens' = tokens
           ELSE IF q \in {"Double", "Single"} /\ ch = "\\"
           THEN /\ position' = advance(advance(position))
                /\ locals' = [locals EXCEPT !.text_buf =
                                 IF IsSome(peek_char(advance(position)))
                                 THEN Append(text, char_at(advance(position)))
                                 ELSE text]
                /\ tokens' = tokens
           ELSE IF q = "None" /\ ch \in {"{", "}"} /\ peek_next_char(position) = Some(ch)
           THEN structural("EscapedBrace", advance(advance(position)))
           ELSE IF q = "None" /\ ch = "{"
           THEN structural("Expression", tokenize_expression(position))
           ELSE IF q = "None" /\ ch = "<" /\ is_component_close(position)
           THEN structural("ComponentClose", tokenize_component_close(position))
           ELSE IF q = "None" /\ ch = "<" /\ is_html_element_close(position)
           THEN structural("HtmlElementClose", tokenize_html_element_close(position))
           ELSE /\ position' = advance(position)
                /\ locals' = [locals EXCEPT !.text_buf = text,
                                            !.after_structural =
                                                IF IsWhitespace(ch) THEN @ ELSE FALSE]
                /\ tokens' = tokens
    /\ UNCHANGED <<generator, transformer, daemon, transpiler, source, in_multiline_string, pc, parser>>

\* tokenize_content: the trailing comment ends the line
ContentComment ==
    /\ InContent /\ IsTrailingComment
    /\ EndLine(Append(tokens, Token("Comment", position, consume_to_eol(position))),
               consume_to_eol(position))
    /\ locals' = ContentLocals(locals, 0)
    /\ UNCHANGED <<generator, transformer, daemon, transpiler, source, in_multiline_string, parser>>

\* tokenize_content calls tokenize_html_element_open, which reads the tag name
ContentElementOpen ==
    /\ InContent /\ IsElementOpen
    /\ tokens' = flush(tokens, locals, position)
    /\ position' = consume_while(advance(position), TagNameChars)
    /\ pc' = "tokenize_html_element_open"
    /\ locals' = [locals EXCEPT !.text_buf = <<>>, !.start = position]
    /\ UNCHANGED <<generator, transformer, daemon, transpiler, source, in_multiline_string, parser>>

\* tokenize_content: the loop is over, the text is flushed, the line ends
ContentDone ==
    /\ pc = "tokenize_content" /\ (at_eof(position) \/ at_newline(position))
    /\ EndLine(flush(tokens, locals, position), position)
    /\ locals' = ContentLocals(locals, 0)
    /\ UNCHANGED <<generator, transformer, daemon, transpiler, source, in_multiline_string, parser>>

\* the attribute loop shared by tokenize_html_element_open and
\* tokenize_component_open: where it stands after skip_whitespace_inline
InTag == skip_whitespace_inline(position)
TagEnds ==
    IF at_eof(InTag) \/ at_newline(InTag) THEN TRUE
    ELSE IF char_at(InTag) = ">" THEN TRUE
    ELSE char_at(InTag) = "/" /\ peek_next_char(InTag) = Some(">")
TagEnd ==
    IF at_eof(InTag) \/ at_newline(InTag) THEN InTag
    ELSE IF char_at(InTag) = ">" THEN advance(InTag)
    ELSE advance(advance(InTag))
AfterAttribute ==
    IF IsSome(parse_attribute(InTag)) THEN parse_attribute(InTag)[1] ELSE advance(InTag)

\* tokenize_html_element_open: one attribute, or one unknown character
HtmlTagAttribute ==
    /\ pc = "tokenize_html_element_open" /\ ~TagEnds
    /\ position' = AfterAttribute
    /\ UNCHANGED <<generator, transformer, daemon, transpiler, source, in_multiline_string, tokens, pc, locals, parser>>

\* tokenize_html_element_open: `/>`, `>` or the end of the line
HtmlTagDone ==
    /\ pc = "tokenize_html_element_open" /\ TagEnds
    /\ tokens' = Append(tokens, Token("HtmlElementOpen", locals.start, TagEnd))
    /\ position' = TagEnd
    /\ pc' = "tokenize_content"
    /\ locals' = AfterStructural(locals, TagEnd)
    /\ UNCHANGED <<generator, transformer, daemon, transpiler, source, in_multiline_string, parser>>

\* tokenize_component_open: one attribute, or one unknown character
ComponentTagAttribute ==
    /\ pc = "tokenize_component_open" /\ ~TagEnds
    /\ position' = AfterAttribute
    /\ UNCHANGED <<generator, transformer, daemon, transpiler, source, in_multiline_string, tokens, pc, locals, parser>>

\* tokenize_component_open: `/>` or the end of the line end the pass over
\* the line; after `>` the rest of the line is tokenize_content's
ComponentTagDone ==
    /\ pc = "tokenize_component_open" /\ TagEnds
    /\ LET pushed == Append(tokens, Token("ComponentOpen", locals.start, TagEnd))
           open == ~at_eof(InTag) /\ char_at(InTag) = ">"
       IN  IF open /\ ~at_eof(TagEnd) /\ ~at_newline(TagEnd)
           THEN /\ tokens' = pushed
                /\ position' = TagEnd
                /\ pc' = "tokenize_content"
                /\ locals' = ContentLocals(locals, TagEnd)
           ELSE /\ EndLine(pushed, TagEnd)
                /\ locals' = locals
    /\ UNCHANGED <<generator, transformer, daemon, transpiler, source, in_multiline_string, parser>>

\* tokenize: the loop is over, the Eof token is pushed, the vector returned
TokenizeEof ==
    /\ pc = "tokenize" /\ at_eof(position)
    /\ tokens' = Append(tokens, Token("Eof", position, position))
    /\ pc' = "returned"
    /\ UNCHANGED <<generator, transformer, daemon, transpiler, source, position, in_multiline_string, locals, parser>>

\* tokenize(source): Tokenizer::new over one of the inputs
NewTokenizer ==
    /\ pc = "new"
    /\ source' \in Sources
    /\ pc' = "tokenize"
    /\ UNCHANGED <<generator, transformer, daemon, transpiler, position, in_multiline_string, tokens, locals, parser>>

NextTokenize ==
    \/ NewTokenizer
    \/ LineBlank \/ LineInString \/ LineStringStart \/ LineToken
    \/ LineComponentOpen \/ LineContent \/ LineStatement
    \/ StatementContinue \/ StatementDone
    \/ ContentChar \/ ContentComment \/ ContentElementOpen \/ ContentDone
    \/ HtmlTagAttribute \/ HtmlTagDone \/ ComponentTagAttribute \/ ComponentTagDone
    \/ TokenizeEof

(***************************************************************************)
(* AST nodes (ast.rs).  Vec<Node> is a sequence; text payloads that the    *)
(* parser never branches on are left out.                                  *)
(***************************************************************************)
TextNode(i) == [kind |-> "Text", span |-> Span(i, 0)]
ExpressionNode(i) == [kind |-> "Expression", span |-> Span(i, 0)]
DecoratorNode(i) == [kind |-> "Decorator", span |-> Span(i, 0)]
FragmentNode(i) == [kind |-> "Fragment", children |-> <<>>, span |-> Span(i, 0)]
StatementNode(i) == [kind |-> "Statement", span |-> Span(i, 0)]
ParameterNode(i) == [kind |-> "Parameter", span |-> Span(i, 0)]
SlotNode(name, fallback, i) ==
    [kind |-> "Slot", name |-> name, fallback |-> fallback, span |-> Span(i, 0)]
ElementNode(tag, attrs, children, sc, i) ==
    [kind |-> "Element", tag |-> tag, attributes |-> attrs, children |-> children,
     self_closing |-> sc, span |-> Span(i, 0)]
ComponentNode(name, attrs, children, i) ==
    [kind |-> "Component", name |-> name, attributes |-> attrs,
     children |-> children, span |-> Span(i, 0)]
IfNode(i, then_branch, elif_branches, else_branch) ==
    [kind |-> "If", then_branch |-> then_branch, elif_branches |-> elif_branches,
     else_branch |-> else_branch, span |-> Span(i, 0)]
LoopNode(kind, i, body, is_async) ==
    [kind |-> kind, body |-> body, is_async |-> is_async, span |-> Span(i, 0)]
MatchNode(i, cases) == [kind |-> "Match", cases |-> cases, span |-> Span(i, 0)]
TryNode(i, body, except_clauses, else_clause, finally_clause) ==
    [kind |-> "Try", body |-> body, except_clauses |-> except_clauses,
     else_clause |-> else_clause, finally_clause |-> finally_clause,
     span |-> Span(i, 0)]
DefinitionNode(defkind, i, body) ==
    [kind |-> "Definition", defkind |-> defkind, body |-> body, span |-> Span(i, 0)]

\* One clause of an if / try / match: (span, body)
Clause(kw, i, body) == [kw |-> kw, span |-> Span(i, 0), body |-> body]

(***************************************************************************)
(* ParseError (error.rs) and the Result of TreeBuilder::build              *)
(***************************************************************************)
ParseError(kind, span) == [kind |-> kind, span |-> span, related_span |-> None]
with_related(e, span) == [e EXCEPT !.related_span = Some(span)]

Pending == [status |-> "running", nodes |-> <<>>, error |-> None]
Ok(nodes) == [status |-> "ok", nodes |-> nodes, error |-> None]
Err(e) == [status |-> "err", nodes |-> <<>>, error |-> Some(e)]

(***************************************************************************)
(* Frames: one per active call of build or of a parse_until_* loop.        *)
(*   fn     the loop the frame is in                                       *)
(*   kw     the block keyword (control blocks)                             *)
(*   name   tag / component name / slot name                               *)
(*   open   index of the token that opened the construct                   *)
(*   phase  which body of the block is being collected                     *)
(*   clause index of the token that opened the current clause              *)
(*   nodes  the `nodes` vector of the loop                                 *)
(*   acc    the caller's locals: first body, clause list, else, finally    *)
(***************************************************************************)
EmptyAcc == [first |-> <<>>, list |-> <<>>, else_ |-> None, finally_ |-> None]

Frame(fn, kw, name, open, phase, attrs) ==
    [fn |-> fn, kw |-> kw, name |-> name, open |-> open, phase |-> phase,
     clause |-> open, nodes |-> <<>>, acc |-> EmptyAcc, attrs |-> attrs]

Top == stack[Len(stack)]
Cur == tokens[pos]
PopFrame(stk) == SubSeq(stk, 1, Len(stk) - 1)
PushNode(stk, node) == [stk EXCEPT ![Len(stk)].nodes = Append(@, node)]
\* the innermost call returns `node` to the loop that called parse_node
Return(stk, node) == PushNode(PopFrame(stk), node)

\* TreeBuilder::is_at_end
is_at_end == pos > Len(tokens) \/ tokens[pos].t = "Eof"

\* TreeBuilder::current_span: the current token's span, or the end of the source
current_span == IF pos <= Len(tokens) THEN Span(pos, 0) ELSE Span(Len(tokens) + 1, 0)

\* build's and every loop's `?`: the first Err leaves the parse
Running == result.status = "running"

(***************************************************************************)
(* Structural checks of the tree builder                                   *)
(***************************************************************************)
\* expect_end: the lookahead is Token::End
expect_end(tok) == tok.t = "End"

\* (mutation of UnclosedBlockError: the related span is not the opener's)
UnclosedBlockAtCurrent(f) ==
    with_related(ParseError("UnclosedBlock", current_span), current_span)
\* expect_end's Err: UnclosedBlock at the current span, related to the opener
UnclosedBlockError(f) ==
    with_related(ParseError("UnclosedBlock", current_span), Span(f.open, 0))

\* the Err after the loops of parse_until_element_close / _component_close /
\* _slot_close ran into the end of input
UnclosedKind(fn) ==
    CASE fn = "parse_until_element_close" -> "UnclosedElement"
      [] fn = "parse_until_component_close" -> "UnclosedComponent"
      [] fn = "parse_until_slot_close" -> "UnclosedSlot"

\* (mutation of UnclosedTagError: with_related is not called)
UnclosedTagNoRelated(f) == ParseError(UnclosedKind(f.fn), current_span)
UnclosedTagError(f) ==
    with_related(ParseError(UnclosedKind(f.fn), current_span), Span(f.open, 0))

\* (mutation of check_nesting: the rule for interactive elements is missing)
check_nesting_no_interactive(estack, child_tag, i) ==
    IF estack = <<>> THEN None
    ELSE LET parent == estack[Len(estack)]
         IN  IF is_auto_close_element(parent) /\ is_block_element(child_tag)
             THEN Some(ParseError("InvalidNesting", Span(i, 0)))
             ELSE None
\* check_nesting: only the top of element_stack is consulted
check_nesting(estack, child_tag, i) ==
    IF estack = <<>> THEN None
    ELSE LET parent == estack[Len(estack)]
         IN  IF is_auto_close_element(parent) /\ is_block_element(child_tag)
             THEN Some(ParseError("InvalidNesting", Span(i, 0)))
             ELSE IF is_interactive_element(parent) /\ is_interactive_element(child_tag)
             THEN Some(ParseError("InvalidNesting", Span(i, 0)))
             ELSE None

\* (mutation of AttrName: spread and slot attributes have a name too)
AttrNameAll(a) == Some(a.name)
\* the name check_duplicate_attributes compares, if the attribute has one
AttrName(a) ==
    IF a.kind \in {"Static", "Dynamic", "Boolean", "Shorthand"} THEN Some(a.name) ELSE None

\* check_duplicate_attributes: Err at the first attribute whose name was seen
\* before, related to the first attribute of that name (attribute j of tag i
\* has span Span(i, j))
DuplicateAt(attrs) ==
    {j \in 1..Len(attrs) :
        /\ IsSome(AttrName(attrs[j]))
        /\ \E h \in 1..(j - 1) : AttrName(attrs[h]) = AttrName(attrs[j])}

check_duplicate_attributes(attrs, i) ==
    LET dups == DuplicateAt(attrs)
    IN  IF dups = {} THEN None
        ELSE LET j == CHOOSE x \in dups : \A y \in dups : x <= y
                 same == {h \in 1..(j - 1) : AttrName(attrs[h]) = AttrName(attrs[j])}
                 first == CHOOSE h \in same : \A g \in same : h <= g
             IN  Some(with_related(ParseError("DuplicateAttribute", Span(i, j)), Span(i, first)))

\* the void-element Err of parse_node's HtmlElementOpen arm
VoidElementError(tok, i) ==
    IF ~tok.sc /\ is_void_element(tok.k)
    THEN Some(ParseError("VoidElementWithContent", Span(i, 0)))
    ELSE None

\* The checks of the HtmlElementOpen arm in the order the code runs them
ElementOpenError(tok, i, estack) ==
    LET nesting == check_nesting(estack, tok.k, i)
        void == VoidElementError(tok, i)
    IN  IF IsSome(nesting) THEN nesting
        ELSE IF IsSome(void) THEN void
        ELSE check_duplicate_attributes(tok.attrs, i)

\* TreeBuilder::is_parameter_declaration
is_parameter_declaration(code) ==
    LET trimmed == Trim(code)
        colon_pos == Find(code, <<":">>)
        equals_pos == Find(code, <<"=">>)
    IN  IF StartsWith(trimmed, <<"*", "*">>) \/ StartsWith(trimmed, <<"*">>)
        THEN Contains(trimmed, <<":">>)
        ELSE IF ~Contains(code, <<":">>) THEN FALSE
        ELSE IF \/ StartsWith(code, <<"i", "f", " ">>)
                \/ StartsWith(code, <<"f", "o", "r", " ">>)
                \/ StartsWith(code, <<"w", "h", "i", "l", "e", " ">>)
                \/ StartsWith(code, <<"m", "a", "t", "c", "h", " ">>)
                \/ StartsWith(code, <<"w", "i", "t", "h", " ">>)
             THEN FALSE
        ELSE IF colon_pos # 0
             THEN (IF equals_pos # 0 THEN colon_pos < equals_pos ELSE TRUE)
             ELSE FALSE

\* TreeBuilder::parse_parameter: splitn(2, ':') must give two parts
parse_parameter(code, i) ==
    IF Contains(code, <<":">>) THEN ParameterNode(i) ELSE StatementNode(i)

\* (mutation of StatementArm: in_header is not consulted)
StatementArmAlways(code, i, header) ==
    IF is_parameter_declaration(code) THEN parse_parameter(code, i) ELSE StatementNode(i)
\* the PythonStatement arm of parse_node
StatementArm(code, i, header) ==
    IF header /\ is_parameter_declaration(code)
    THEN parse_parameter(code, i)
    ELSE StatementNode(i)

\* the Expression arm: `children` / `children_<name>` become Slot nodes
ExpressionArm(tok, i) ==
    CASE tok.k = "children" -> SlotNode(None, <<>>, i)
      [] tok.k = "children_sidebar" -> SlotNode(Some("sidebar"), <<>>, i)
      [] OTHER -> ExpressionNode(i)

(***************************************************************************)
(* Control blocks: parse_control_flow and the parse_<keyword> functions    *)
(***************************************************************************)
BlockKeywords ==
    {"if", "for", "async for", "while", "match", "with", "async with", "try",
     "def", "async def", "class"}

\* parse_for: rest.splitn(2, " in ") must give two parts
ForHasIn(code) == Contains(code, <<" ", "i", "n", " ">>)

\* parse_control_flow / parse_for: the InvalidSyntax errors raised before the
\* ControlStart token is consumed
ControlStartError(tok, i) ==
    IF tok.k \notin BlockKeywords
    THEN Some(ParseError("InvalidSyntax", Span(i, 0)))
    ELSE IF tok.k \in {"for", "async for"} /\ ~ForHasIn(tok.code)
    THEN Some(ParseError("InvalidSyntax", Span(i, 0)))
    ELSE None

\* the frame a ControlStart token opens: the first body loop of its parse_<kw>
BlockFrame(tok, i) ==
    Frame(IF tok.k = "match" THEN "parse_match" ELSE "parse_until_block_end",
          tok.k, "", i,
          CASE tok.k = "if" -> "then" [] tok.k = "match" -> "head" [] OTHER -> "body",
          <<>>)

\* the while-let loops of parse_if and parse_try: does the loop take this
\* continuation token as a further clause of the block?
TakesClause(f, tok) ==
    /\ tok.t = "ControlContinuation"
    /\ \/ f.kw = "if" /\ f.phase \in {"then", "elif"} /\ tok.k \in {"elif", "else"}
       \/ f.kw = "try" /\ f.phase \in {"body", "except", "else"}
                       /\ tok.k \in {"except", "else", "finally"}

\* the body just collected is stored in the caller's locals
Absorb(f) ==
    LET acc == f.acc
        acc2 ==
          CASE f.fn = "parse_until_case_end" ->
                 [acc EXCEPT !.list = Append(@, Clause("case", f.clause, f.nodes))]
            [] f.fn = "parse_match" -> acc
            [] f.phase \in {"then", "body"} -> [acc EXCEPT !.first = f.nodes]
            [] f.phase \in {"elif", "except"} ->
                 [acc EXCEPT !.list = Append(@, Clause(f.phase, f.clause, f.nodes))]
            [] f.phase = "else" -> [acc EXCEPT !.else_ = Some(f.nodes)]
            [] f.phase = "finally" -> [acc EXCEPT !.finally_ = Some(f.nodes)]
    IN  [f EXCEPT !.acc = acc2, !.nodes = <<>>]

\* the node a parse_<keyword> function returns after expect_end
BlockNode(f) ==
    LET acc == f.acc
    IN  CASE f.kw = "if" -> IfNode(f.open, acc.first, acc.list, acc.else_)
          [] f.kw = "for" -> LoopNode("For", f.open, acc.first, FALSE)
          [] f.kw = "async for" -> LoopNode("For", f.open, acc.first, TRUE)
          [] f.kw = "while" -> LoopNode("While", f.open, acc.first, FALSE)
          [] f.kw = "with" -> LoopNode("With", f.open, acc.first, FALSE)
          [] f.kw = "async with" -> LoopNode("With", f.open, acc.first, TRUE)
          [] f.kw = "match" -> MatchNode(f.open, acc.list)
          [] f.kw = "try" -> TryNode(f.open, acc.first, acc.list, acc.else_, acc.finally_)
          [] f.kw \in {"def", "async def"} -> DefinitionNode("Function", f.open, acc.first)
          [] f.kw = "class" -> DefinitionNode("Class", f.open, acc.first)

IsBlockFrame(f) ==
    f.fn \in {"parse_until_block_end", "parse_match", "parse_until_case_end"}

\* the caller of the frame's loop has reached its expect_end call
AtExpectEnd(f, tok) ==
    CASE f.fn = "parse_until_block_end" ->
           (is_at_end \/ tok.t \in {"End", "ControlContinuation"}) /\ ~TakesClause(f, tok)
      [] f.fn = "parse_match" ->
           tok.t \notin {"Newline", "Indent"}
           /\ ~(tok.t = "ControlContinuation" /\ tok.k = "case")
      [] f.fn = "parse_until_case_end" -> is_at_end \/ tok.t = "End"
      [] OTHER -> FALSE

\* the loop on top of the stack passes this token to parse_node
CallsParseNode(f, tok) ==
    CASE f.fn = "build" -> TRUE
      [] f.fn = "parse_until_element_close" ->
           ~(tok.t = "HtmlElementClose" /\ tok.k = f.name)
      [] f.fn = "parse_until_component_close" ->
           ~(tok.t = "ComponentClose" /\ tok.k = f.name)
      [] f.fn = "parse_until_slot_close" -> ~(tok.t = "SlotClose" /\ tok.k = f.name)
      [] f.fn = "parse_until_block_end" -> tok.t \notin {"End", "ControlContinuation"}
      [] f.fn = "parse_until_case_end" ->
           ~(tok.t = "End" \/ (tok.t = "ControlContinuation" /\ tok.k = "case"))
      [] f.fn = "parse_match" -> FALSE

InParseNode == Running /\ ~is_at_end /\ CallsParseNode(Top, Cur)

\* SlotOpen arm: only a named slot collects fallback content
SlotCollects(tok) == tok.k # ""

(***************************************************************************)
(* Actions of the tree builder.  Each consumes at most one token.          *)
(***************************************************************************)
Advance == pos' = pos + 1

\* (mutation of Fail: the error is recorded and the offending token skipped)
FailAndSkip(e) ==
    /\ result' = Err(e)
    /\ pos' = pos + 1
    /\ UNCHANGED <<generator, transformer, daemon, transpiler, tokenizer, tokens, in_header, element_stack, stack>>

\* an Err returned through every `?` up to build: nothing else changes
Fail(e) ==
    /\ result' = Err(e)
    /\ UNCHANGED <<generator, transformer, daemon, transpiler, tokenizer, tokens, pos, in_header, element_stack, stack>>

\* (mutation of ParseSkip: the skipped token also ends the innermost loop)
ParseSkipCloses ==
    /\ InParseNode
    /\ Cur.t \in {"Newline", "Indent", "Comment", "HtmlElementClose", "ComponentClose",
                  "SlotClose", "End", "ControlContinuation"}
    /\ Advance
    /\ stack' = IF Len(stack) > 1 /\ Cur.t \notin {"Newline", "Indent", "Comment"} THEN Return(stack, TextNode(pos)) ELSE stack
    /\ UNCHANGED <<generator, transformer, daemon, transpiler, tokenizer, tokens, in_header, element_stack, result>>
\* parse_node arms that advance and return Ok(None)
ParseSkip ==
    /\ InParseNode
    /\ Cur.t \in {"Newline", "Indent", "Comment", "HtmlElementClose", "ComponentClose",
                  "SlotClose", "End", "ControlContinuation"}
    /\ Advance
    /\ UNCHANGED <<generator, transformer, daemon, transpiler, tokenizer, tokens, in_header, element_stack, stack, result>>

\* the Separator arm: the header zone ends
ParseSeparator ==
    /\ InParseNode
    /\ Cur.t = "Separator"
    /\ in_header' = FALSE
    /\ Advance
    /\ UNCHANGED <<generator, transformer, daemon, transpiler, tokenizer, tokens, element_stack, stack, result>>

\* Text, Expression, Decorator, EscapedBrace and FragmentStart arms
ParseLeaf ==
    /\ InParseNode
    /\ Cur.t \in {"Text", "Expression", "Decorator", "EscapedBrace", "FragmentStart"}
    /\ stack' = PushNode(stack,
                  CASE Cur.t = "Text" -> TextNode(pos)
                    [] Cur.t = "EscapedBrace" -> TextNode(pos)
                    [] Cur.t = "Expression" -> ExpressionArm(Cur, pos)
                    [] Cur.t = "Decorator" -> DecoratorNode(pos)
                    [] Cur.t = "FragmentStart" -> FragmentNode(pos))
    /\ Advance
    /\ UNCHANGED <<generator, transformer, daemon, transpiler, tokenizer, tokens, in_header, element_stack, result>>

\* the PythonStatement arm
ParseStatement ==
    /\ InParseNode
    /\ Cur.t = "PythonStatement"
    /\ stack' = PushNode(stack, StatementArm(Cur.code, pos, in_header))
    /\ Advance
    /\ UNCHANGED <<generator, transformer, daemon, transpiler, tokenizer, tokens, in_header, element_stack, result>>

\* the HtmlElementOpen arm, one of its checks failing
ElementOpenFail ==
    /\ InParseNode
    /\ Cur.t = "HtmlElementOpen"
    /\ IsSome(ElementOpenError(Cur, pos, element_stack))
    /\ Fail(ElementOpenError(Cur, pos, element_stack)[1])

\* the HtmlElementOpen arm, self-closing tag: an element without children
ElementSelfClosing ==
    /\ InParseNode
    /\ Cur.t = "HtmlElementOpen"
    /\ ~IsSome(ElementOpenError(Cur, pos, element_stack))
    /\ Cur.sc
    /\ stack' = PushNode(stack, ElementNode(Cur.k, Cur.attrs, <<>>, TRUE, pos))
    /\ Advance
    /\ UNCHANGED <<generator, transformer, daemon, transpiler, tokenizer, tokens, in_header, element_stack, result>>

\* the HtmlElementOpen arm entering parse_until_element_close
ElementOpen ==
    /\ InParseNode
    /\ Cur.t = "HtmlElementOpen"
    /\ ~IsSome(ElementOpenError(Cur, pos, element_stack))
    /\ ~Cur.sc
    /\ stack' = Append(stack,
                  Frame("parse_until_element_close", "", Cur.k, pos, "children", Cur.attrs))
    /\ element_stack' = Append(element_stack, Cur.k)
    /\ Advance
    /\ UNCHANGED <<generator, transformer, daemon, transpiler, tokenizer, tokens, in_header, result>>

\* parse_until_element_close meets the close tag of the same name
ElementClose ==
    /\ Running /\ ~is_at_end
    /\ Top.fn = "parse_until_element_close"
    /\ Cur.t = "HtmlElementClose" /\ Cur.k = Top.name
    /\ element_stack' = SubSeq(element_stack, 1, Len(element_stack) - 1)
    /\ stack' = Return(stack, ElementNode(Top.name, Top.attrs, Top.nodes, FALSE, Top.open))
    /\ Advance
    /\ UNCHANGED <<generator, transformer, daemon, transpiler, tokenizer, tokens, in_header, result>>

\* the ComponentOpen arm, a duplicate attribute
ComponentOpenFail ==
    /\ InParseNode
    /\ Cur.t = "ComponentOpen"
    /\ IsSome(check_duplicate_attributes(Cur.attrs, pos))
    /\ Fail(check_duplicate_attributes(Cur.attrs, pos)[1])

ComponentSelfClosing ==
    /\ InParseNode
    /\ Cur.t = "ComponentOpen"
    /\ ~IsSome(check_duplicate_attributes(Cur.attrs, pos))
    /\ Cur.sc
    /\ stack' = PushNode(stack, ComponentNode(Cur.k, Cur.attrs, <<>>, pos))
    /\ Advance
    /\ UNCHANGED <<generator, transformer, daemon, transpiler, tokenizer, tokens, in_header, element_stack, result>>

\* (mutation of ComponentOpen: the elements around the component are forgotten)
ComponentOpenHidesElements ==
    /\ InParseNode
    /\ Cur.t = "ComponentOpen"
    /\ ~IsSome(check_duplicate_attributes(Cur.attrs, pos))
    /\ ~Cur.sc
    /\ stack' = Append(stack,
                  Frame("parse_until_component_close", "", Cur.k, pos, "children", Cur.attrs))
    /\ Advance
    /\ element_stack' = <<>>
    /\ UNCHANGED <<generator, transformer, daemon, transpiler, tokenizer, tokens, in_header, result>>
ComponentOpen ==
    /\ InParseNode
    /\ Cur.t = "ComponentOpen"
    /\ ~IsSome(check_duplicate_attributes(Cur.attrs, pos))
    /\ ~Cur.sc
    /\ stack' = Append(stack,
                  Frame("parse_until_component_close", "", Cur.k, pos, "children", Cur.attrs))
    /\ Advance
    /\ UNCHANGED <<generator, transformer, daemon, transpiler, tokenizer, tokens, in_header, element_stack, result>>

ComponentClose ==
    /\ Running /\ ~is_at_end
    /\ Top.fn = "parse_until_component_close"
    /\ Cur.t = "ComponentClose" /\ Cur.k = Top.name
    /\ stack' = Return(stack, ComponentNode(Top.name, Top.attrs, Top.nodes, Top.open))
    /\ Advance
    /\ UNCHANGED <<generator, transformer, daemon, transpiler, tokenizer, tokens, in_header, element_stack, result>>

\* the SlotOpen arm, no fallback collected: the Slot node is complete
SlotPlaceholder ==
    /\ InParseNode
    /\ Cur.t = "SlotOpen"
    /\ ~SlotCollects(Cur)
    /\ stack' = PushNode(stack,
                  SlotNode(IF Cur.k = "" THEN None ELSE Some(Cur.k), <<>>, pos))
    /\ Advance
    /\ UNCHANGED <<generator, transformer, daemon, transpiler, tokenizer, tokens, in_header, element_stack, result>>

\* the SlotOpen arm entering parse_until_slot_close
SlotOpen ==
    /\ InParseNode
    /\ Cur.t = "SlotOpen"
    /\ SlotCollects(Cur)
    /\ stack' = Append(stack,
                  Frame("parse_until_slot_close", "", Cur.k, pos, "fallback", <<>>))
    /\ Advance
    /\ UNCHANGED <<generator, transformer, daemon, transpiler, tokenizer, tokens, in_header, element_stack, result>>

SlotClose ==
    /\ Running /\ ~is_at_end
    /\ Top.fn = "parse_until_slot_close"
    /\ Cur.t = "SlotClose" /\ Cur.k = Top.name
    /\ stack' = Return(stack,
                  SlotNode(IF Top.name = "" THEN None ELSE Some(Top.name), Top.nodes, Top.open))
    /\ Advance
    /\ UNCHANGED <<generator, transformer, daemon, transpiler, tokenizer, tokens, in_header, element_stack, result>>

\* end of input inside parse_until_element_close / _component_close / _slot_close
UnclosedTag ==
    /\ Running /\ is_at_end
    /\ Top.fn \in {"parse_until_element_close", "parse_until_component_close",
                   "parse_until_slot_close"}
    /\ result' = Err(UnclosedTagError(Top))
    /\ element_stack' = IF Top.fn = "parse_until_element_close"
                        THEN SubSeq(element_stack, 1, Len(element_stack) - 1)
                        ELSE element_stack
    /\ UNCHANGED <<generator, transformer, daemon, transpiler, tokenizer, tokens, pos, in_header, stack>>

\* the ControlStart arm: parse_control_flow rejects the line
ControlStartFail ==
    /\ InParseNode
    /\ Cur.t = "ControlStart"
    /\ IsSome(ControlStartError(Cur, pos))
    /\ Fail(ControlStartError(Cur, pos)[1])

\* the ControlStart arm: parse_<keyword> advances and collects the first body
ControlStart ==
    /\ InParseNode
    /\ Cur.t = "ControlStart"
    /\ ~IsSome(ControlStartError(Cur, pos))
    /\ stack' = Append(stack, BlockFrame(Cur, pos))
    /\ Advance
    /\ UNCHANGED <<generator, transformer, daemon, transpiler, tokenizer, tokens, in_header, element_stack, result>>

\* parse_if / parse_try: the loop takes elif / else / except / finally
BlockClause ==
    /\ Running /\ ~is_at_end
    /\ Top.fn = "parse_until_block_end"
    /\ TakesClause(Top, Cur)
    /\ stack' = [stack EXCEPT ![Len(stack)] =
                    [Absorb(Top) EXCEPT !.phase = Cur.k, !.clause = pos]]
    /\ Advance
    /\ UNCHANGED <<generator, transformer, daemon, transpiler, tokenizer, tokens, in_header, element_stack, result>>

\* parse_match: skip_structural_tokens before the first case
MatchSkipStructural ==
    /\ Running /\ ~is_at_end
    /\ Top.fn = "parse_match"
    /\ Cur.t \in {"Newline", "Indent"}
    /\ Advance
    /\ UNCHANGED <<generator, transformer, daemon, transpiler, tokenizer, tokens, in_header, element_stack, stack, result>>

\* parse_match: a case clause starts (closing the case before it, if any)
MatchCase ==
    /\ Running /\ ~is_at_end
    /\ Top.fn \in {"parse_match", "parse_until_case_end"}
    /\ Cur.t = "ControlContinuation" /\ Cur.k = "case"
    /\ stack' = [stack EXCEPT ![Len(stack)] =
                    [Absorb(Top) EXCEPT !.fn = "parse_until_case_end",
                                        !.phase = "case", !.clause = pos]]
    /\ Advance
    /\ UNCHANGED <<generator, transformer, daemon, transpiler, tokenizer, tokens, in_header, element_stack, result>>

\* expect_end succeeds: the block's node is returned to the enclosing loop
BlockEnd ==
    /\ Running
    /\ IsBlockFrame(Top)
    /\ AtExpectEnd(Top, Cur)
    /\ expect_end(Cur)
    /\ stack' = Return(stack, BlockNode(Absorb(Top)))
    /\ Advance
    /\ UNCHANGED <<generator, transformer, daemon, transpiler, tokenizer, tokens, in_header, element_stack, result>>

\* expect_end fails
BlockUnclosed ==
    /\ Running
    /\ IsBlockFrame(Top)
    /\ AtExpectEnd(Top, Cur)
    /\ ~expect_end(Cur)
    /\ Fail(UnclosedBlockError(Top))

\* build's loop ends at the end of input: Ok(nodes)
BuildDone ==
    /\ Running /\ is_at_end
    /\ Top.fn = "build"
    /\ result' = Ok(Top.nodes)
    /\ UNCHANGED <<generator, transformer, daemon, transpiler, tokenizer, tokens, pos, in_header, element_stack, stack>>

Next ==
    \/ ParseSkip \/ ParseSeparator \/ ParseLeaf \/ ParseStatement
    \/ ElementOpenFail \/ ElementSelfClosing \/ ElementOpen \/ ElementClose
    \/ ComponentOpenFail \/ ComponentSelfClosing \/ ComponentOpen \/ ComponentClose
    \/ SlotPlaceholder \/ SlotOpen \/ SlotClose \/ UnclosedTag
    \/ ControlStartFail \/ ControlStart \/ BlockClause
    \/ MatchSkipStructural \/ MatchCase \/ BlockEnd \/ BlockUnclosed
    \/ BuildDone

(***************************************************************************)
(* Initial states: TreeBuilder::new over the token vector of an input.     *)
(* tokenize always ends the vector with the one Eof token.                 *)
(***************************************************************************)
MaxTokens == 3

ParserInit(alphabet, n) ==
    /\ GeneratorIdle /\ TransformerIdle /\ DaemonIdle /\ TranspilerIdle
    /\ tokens \in {Append(body, EofTok) : body \in SeqsUpTo(alphabet, n)}
    /\ pos = 1
    /\ in_header = TRUE
    /\ element_stack = <<>>
    /\ stack = <<Frame("build", "", "", 0, "", <<>>)>>
    /\ result = Pending
    /\ TokenizerIdle

CharsParam == <<"n", ":", "t">>
CharsAssign == <<"x", "=", "1">>
CharsForIn == <<"x", " ", "i", "n", " ", "y">>
CharsForBad == <<"x">>

MixedAlphabet ==
    {Tok("Text", ""), Tok("Newline", ""), Tok("End", ""), Tok("Separator", ""),
     Tag("HtmlElementOpen", "div", FALSE, <<>>),
     Tag("HtmlElementOpen", "p", FALSE, <<>>),
     Tag("HtmlElementOpen", "br", FALSE, <<>>),
     Tag("HtmlElementOpen", "br", TRUE, <<>>),
     Tag("ComponentOpen", "Row", FALSE, <<Attr("Static", "id"), Attr("Boolean", "id")>>),
     Tok("HtmlElementClose", "div"), Tok("HtmlElementClose", "p"),
     Tag("ComponentOpen", "Card", FALSE, <<>>),
     Tag("ComponentOpen", "Card", TRUE, <<>>),
     Tok("ComponentClose", "Card"),
     Tok("SlotOpen", "side"), Tok("SlotOpen", ""), Tok("SlotClose", "side"),
     Line("ControlStart", "if", <<>>),
     Line("ControlStart", "for", CharsForIn),
     Line("ControlStart", "for", CharsForBad),
     Line("ControlStart", "match", <<>>),
     Tok("ControlContinuation", "else"), Tok("ControlContinuation", "case"),
     Line("PythonStatement", "", CharsParam)}

Init == ParserInit(MixedAlphabet, MaxTokens)

Spec == Init /\ [][Next]_vars

(***************************************************************************)
(* Walking an AST                                                          *)
(***************************************************************************)
ClauseBodies(list) == [c \in 1..Len(list) |-> list[c].body]

\* every Vec<Node> a node owns
BodiesOf(node) ==
    CASE node.kind \in {"Element", "Component", "Fragment"} -> <<node.children>>
      [] node.kind = "Slot" -> <<node.fallback>>
      [] node.kind = "If" ->
           <<node.then_branch>> \o ClauseBodies(node.elif_branches) \o node.else_branch
      [] node.kind \in {"For", "While", "With", "Definition"} -> <<node.body>>
      [] node.kind = "Match" -> ClauseBodies(node.cases)
      [] node.kind = "Try" ->
           <<node.body>> \o ClauseBodies(node.except_clauses)
                         \o node.else_clause \o node.finally_clause
      [] OTHER -> <<>>

\* every node of a Vec<Node>, at any depth
RECURSIVE NodesIn(_)
NodesIn(nodes) ==
    UNION {{nodes[n]} \cup UNION {NodesIn(BodiesOf(nodes[n])[b]) :
                                    b \in 1..Len(BodiesOf(nodes[n]))} :
           n \in 1..Len(nodes)}

\* every Vec<Node> a frame holds: the loop's nodes and the caller's locals
FrameBodies(f) ==
    <<f.nodes, f.acc.first>> \o ClauseBodies(f.acc.list) \o f.acc.else_ \o f.acc.finally_

\* every node built so far, returned or still on the stack
BuiltNodes ==
    NodesIn(result.nodes)
    \cup UNION {UNION {NodesIn(FrameBodies(stack[d])[b]) :
                         b \in 1..Len(FrameBodies(stack[d]))} :
                d \in 1..Len(stack)}

(***************************************************************************)
(* Control blocks on their own: every block keyword, every continuation    *)
(* keyword, `end` and text.                                                *)
(***************************************************************************)
MaxBlockTokens == 3

BlockAlphabet ==
    {Line("ControlStart", "if", <<>>),
     Line("ControlStart", "for", CharsForIn),
     Line("ControlStart", "async for", CharsForIn),
     Line("ControlStart", "while", <<>>),
     Line("ControlStart", "match", <<>>),
     Line("ControlStart", "with", <<>>),
     Line("ControlStart", "async with", <<>>),
     Line("ControlStart", "try", <<>>),
     Line("ControlStart", "def", <<>>),
     Line("ControlStart", "async def", <<>>),
     Line("ControlStart", "class", <<>>),
     Tok("ControlContinuation", "elif"), Tok("ControlContinuation", "else"),
     Tok("ControlContinuation", "except"), Tok("ControlContinuation", "finally"),
     Tok("ControlContinuation", "case"),
     Tok("End", ""), Tok("Text", "")}

InitBlocks == ParserInit(BlockAlphabet, MaxBlockTokens)

NextBlocks ==
    \/ ParseSkip \/ ParseLeaf \/ ControlStart \/ BlockClause \/ MatchCase
    \/ BlockEnd \/ BlockUnclosed \/ BuildDone

SpecBlocks == InitBlocks /\ [][NextBlocks]_vars

(***************************************************************************)
(* The blocks that take continuation clauses, with longer inputs           *)
(***************************************************************************)
MaxClauseTokens == 4

ClauseAlphabet ==
    {Line("ControlStart", "if", <<>>),
     Line("ControlStart", "try", <<>>),
     Line("ControlStart", "match", <<>>),
     Tok("ControlContinuation", "elif"), Tok("ControlContinuation", "else"),
     Tok("ControlContinuation", "except"), Tok("ControlContinuation", "finally"),
     Tok("ControlContinuation", "case"),
     Tok("End", ""), Tok("Text", "")}

InitClauses == ParserInit(ClauseAlphabet, MaxClauseTokens)

SpecClauses == InitClauses /\ [][NextBlocks]_vars

(***************************************************************************)
(* C1.  For every control block (if, for, while, match, with, try, def,    *)
(* class): when the block's body and the continuation clauses the parser   *)
(* collected are followed by something other than `end` (the end of input  *)
(* or another token), the parse fails at that token with UnclosedBlock,    *)
(* and the error's related span is the span of the line that opened the    *)
(* block.                                                                  *)
(***************************************************************************)
C1_UnclosedBlock ==
    [][(/\ Running
        /\ IsBlockFrame(Top)
        /\ AtExpectEnd(Top, Cur)
        /\ Cur.t # "End")
       => /\ result'.status = "err"
          /\ result'.error[1].kind = "UnclosedBlock"
          /\ result'.error[1].span = Span(pos, 0)
          /\ result'.error[1].related_span = Some(Span(Top.open, 0))
          /\ tokens[Top.open].t = "ControlStart"
          /\ tokens[Top.open].k = Top.kw]_vars

\* an inner block left open before a continuation keyword of the outer one:
\* the error names the inner block's line
C1_Witness ==
    /\ result.status = "err"
    /\ result.error[1].kind = "UnclosedBlock"
    /\ Len(stack) = 3
    /\ tokens[pos].t = "ControlContinuation"
    /\ result.error[1].related_span = Some(Span(2, 0))

(***************************************************************************)
(* C2 as stated.  Whenever an element or component opened by a             *)
(* non-self-closing tag is still open when the end of input is reached,    *)
(* the parse fails with UnclosedElement / UnclosedComponent respectively,  *)
(* primary span at the end of input, related span the span of that open    *)
(* tag.  Stated for every element or component that is open at that        *)
(* moment.                                                                 *)
(***************************************************************************)
IsTagFrame(f) == f.fn \in {"parse_until_element_close", "parse_until_component_close"}

UnclosedReport(f) ==
    Err(with_related(ParseError(UnclosedKind(f.fn), Span(Len(tokens), 0)), Span(f.open, 0)))

C2_EveryOpenTagReported ==
    [][(Running /\ is_at_end)
       => \A d \in 1..Len(stack) : IsTagFrame(stack[d]) => result' = UnclosedReport(stack[d])]_vars

(***************************************************************************)
(* C2 as amended.  Whenever the innermost construct still open at the end  *)
(* of input is an element or component opened by a non-self-closing tag,   *)
(* the parse fails with UnclosedElement / UnclosedComponent respectively,  *)
(* primary span at the end of input, related span the span of that open    *)
(* tag.                                                                    *)
(***************************************************************************)
C2_InnermostOpenTagReported ==
    [][(Running /\ is_at_end /\ IsTagFrame(Top))
       => /\ result' = UnclosedReport(Top)
          /\ tokens[Top.open].t =
               (IF result'.error[1].kind = "UnclosedElement"
                THEN "HtmlElementOpen" ELSE "ComponentOpen")
          /\ ~tokens[Top.open].sc
          /\ tokens[Top.open].k = Top.name]_vars

\* a component left open inside an element that is left open too
C2_Witness ==
    /\ result.status = "err"
    /\ result.error[1].kind = "UnclosedComponent"
    /\ is_at_end
    /\ Len(stack) = 3
    /\ stack[2].fn = "parse_until_element_close"
    /\ result.error[1].related_span = Some(Span(stack[3].open, 0))

(***************************************************************************)
(* C3.  A parse yields either a complete AST or exactly one error: the     *)
(* step on which a structural check fails consumes no token, nothing       *)
(* happens after it (no further token is consumed, the error is not        *)
(* replaced by a second one), the Err carries no nodes, and Ok is only     *)
(* returned at the end of input with every nested construct closed.        *)
(***************************************************************************)
C3_FailFast ==
    [][/\ (result.status # "running" => UNCHANGED <<pos, result, stack>>)
       /\ (result'.status = "err" /\ result.status = "running"
             => pos' = pos /\ result'.nodes = <<>> /\ Len(result'.error) = 1)
       /\ (result'.status = "ok" /\ result.status = "running"
             => /\ result'.error = None
                /\ tokens[pos].t = "Eof"
                /\ Len(stack) = 1
                /\ result'.nodes = stack[1].nodes)]_vars

\* an error with tokens left unread and nodes already built, which are dropped
C3_Witness ==
    /\ result.status = "err"
    /\ pos + 1 < Len(tokens)
    /\ BuiltNodes # {}
    /\ result.nodes = <<>>

(***************************************************************************)
(* C4 as stated.  After a block body the parser accepts only these         *)
(* continuation sequences before `end`: for `if`, elif* then at most one   *)
(* else; for `try`, except* then at most one else then at most one         *)
(* finally; for `match`, case*.  So no clause is collected for an `if`     *)
(* after its else, no except or else is collected for a `try` after its    *)
(* else, and nothing is collected after a finally.                         *)
(***************************************************************************)
C4_ClauseOrder ==
    \A d \in 1..Len(stack) :
        LET f == stack[d]
        IN  /\ f.kw = "if" /\ f.phase \in {"elif", "else"} => ~IsSome(f.acc.else_)
            /\ f.kw = "try" /\ f.phase \in {"except", "else"} => ~IsSome(f.acc.else_)
            /\ f.kw = "try" /\ f.phase \in {"except", "else", "finally"}
                 => ~IsSome(f.acc.finally_)
            /\ f.kw = "match" => f.phase \in {"head", "case"}

(***************************************************************************)
(* HTML elements: tags of every class of html.rs in both letter cases,     *)
(* self-closing or not, inside each other and inside control blocks.       *)
(***************************************************************************)
MaxHtmlTokens == 3

DupAttrs == <<Attr("Static", "id"), Attr("Dynamic", "id")>>

HtmlAlphabet ==
    {Tag("HtmlElementOpen", tag, FALSE, <<>>) :
        tag \in {"p", "P", "div", "a", "button", "span", "br", "BR", "hr"}}
    \cup {Tag("HtmlElementOpen", tag, TRUE, <<>>) : tag \in {"br", "BR", "hr", "div"}}
    \cup {Tag("HtmlElementOpen", "br", TRUE, DupAttrs)}
    \cup {Tok("HtmlElementClose", tag) : tag \in {"p", "div", "a"}}
    \cup {Tok("Text", ""), Tok("End", ""),
          Line("ControlStart", "if", <<>>), Line("ControlStart", "match", <<>>)}

InitHtml == ParserInit(HtmlAlphabet, MaxHtmlTokens)

NextHtml ==
    \/ ParseSkip \/ ParseLeaf
    \/ ElementOpenFail \/ ElementSelfClosing \/ ElementOpen \/ ElementClose \/ UnclosedTag
    \/ ControlStart \/ BlockEnd \/ BlockUnclosed
    \/ BuildDone

SpecHtml == InitHtml /\ [][NextHtml]_vars

\* the nearest enclosing open element of the token the parser is at
HasParent == element_stack # <<>>
Parent == element_stack[Len(element_stack)]

NestingForbidden(parent, child) ==
    \/ is_auto_close_element(parent) /\ is_block_element(child)
    \/ is_interactive_element(parent) /\ is_interactive_element(child)

InvalidNestingAt(i) == Err(ParseError("InvalidNesting", Span(i, 0)))

(***************************************************************************)
(* C5 as stated.  An element open tag whose parent element is an           *)
(* auto-closing element (p) while its own tag is block-level, or whose     *)
(* parent element is interactive (a, button) while its own tag is          *)
(* interactive, makes the parse fail with InvalidNesting.                  *)
(***************************************************************************)
C5_NestingRejected ==
    [][(/\ Running /\ ~is_at_end
        /\ Cur.t = "HtmlElementOpen"
        /\ HasParent /\ NestingForbidden(Parent, Cur.k))
       => result' = InvalidNestingAt(pos)]_vars

(***************************************************************************)
(* C5 as amended.  An element open tag that the parser handles as a node   *)
(* (every position but directly after a `match` header, where the parse    *)
(* fails with UnclosedBlock first), whose parent element is auto-closing   *)
(* while its own tag is block-level, or whose parent element is            *)
(* interactive while its own tag is interactive, makes the parse fail      *)
(* with InvalidNesting at that tag.                                        *)
(***************************************************************************)
C5_NestingRejectedWhenParsed ==
    [][(/\ InParseNode
        /\ Cur.t = "HtmlElementOpen"
        /\ HasParent /\ NestingForbidden(Parent, Cur.k))
       => result' = InvalidNestingAt(pos)]_vars

\* a button inside an a, with a control block in between
C5_Witness ==
    /\ result = InvalidNestingAt(pos)
    /\ to_ascii_lowercase(Parent) = "a"
    /\ tokens[pos].k = "button"
    /\ Top.kw = "if"

(***************************************************************************)
(* C6 as stated.  For every tag of the void-element allowlist (compared    *)
(* case-insensitively): an open tag that is not self-closing makes the     *)
(* parse fail with VoidElementWithContent, and a self-closing one is       *)
(* parsed to an element with no children.                                  *)
(***************************************************************************)
IsVoidTag(tok) == tok.t = "HtmlElementOpen" /\ to_ascii_lowercase(tok.k) \in VOID_ELEMENTS

VoidOutcome ==
    IF Cur.sc
    THEN /\ result' = Pending
         /\ pos' = pos + 1
         /\ Len(stack') = Len(stack)
         /\ LET made == Top'.nodes[Len(Top'.nodes)]
            IN  /\ Len(Top'.nodes) = Len(Top.nodes) + 1
                /\ made.kind = "Element" /\ made.tag = Cur.k
                /\ made.span = Span(pos, 0) /\ made.children = <<>>
    ELSE result' = Err(ParseError("VoidElementWithContent", Span(pos, 0)))

HasDuplicateNames(attrs) ==
    \E g, h \in 1..Len(attrs) :
        /\ g < h
        /\ attrs[g].name = attrs[h].name
        /\ {attrs[g].kind, attrs[h].kind} \subseteq {"Static", "Dynamic", "Boolean", "Shorthand"}

MaxAttrs == 3

AttrAlphabet ==
    {Attr(kind, "id") :
        kind \in {"Static", "Dynamic", "Boolean", "Shorthand", "Spread", "SlotAssignment"}}
    \cup {Attr("Static", "cls"), Attr("Shorthand", "cls")}

AttrTags ==
    {Tag("HtmlElementOpen", "div", TRUE, attrs) : attrs \in SeqsUpTo(AttrAlphabet, MaxAttrs)}
    \cup {Tag("HtmlElementOpen", "br", FALSE, attrs) : attrs \in SeqsUpTo(AttrAlphabet, MaxAttrs)}
    \cup {Tag("ComponentOpen", "Card", TRUE, attrs) : attrs \in SeqsUpTo(AttrAlphabet, MaxAttrs)}

InitAttrs ==
    /\ GeneratorIdle /\ TransformerIdle /\ DaemonIdle /\ TranspilerIdle
    /\ \E tag \in AttrTags :
          tokens \in {<<tag, EofTok>>,
                      <<Tag("HtmlElementOpen", "p", FALSE, <<>>), tag, EofTok>>}
    /\ pos = 1
    /\ in_header = TRUE
    /\ element_stack = <<>>
    /\ stack = <<Frame("build", "", "", 0, "", <<>>)>>
    /\ result = Pending
    /\ TokenizerIdle

NextAttrs ==
    \/ ElementOpenFail \/ ElementSelfClosing \/ ElementOpen \/ UnclosedTag
    \/ ComponentOpenFail \/ ComponentSelfClosing
    \/ BuildDone

SpecAttrs == InitAttrs /\ [][NextAttrs]_vars

IsNamed(a) == a.kind \in {"Static", "Dynamic", "Boolean", "Shorthand"}

\* attribute h repeats the name of attribute g, the first one of that name
Repeats(attrs, g, h) ==
    /\ g < h
    /\ IsNamed(attrs[g]) /\ IsNamed(attrs[h])
    /\ attrs[g].name = attrs[h].name
    /\ \A f \in 1..(g - 1) : ~(IsNamed(attrs[f]) /\ attrs[f].name = attrs[g].name)

DuplicateReported(i, attrs) ==
    \E g, h \in 1..Len(attrs) :
        /\ Repeats(attrs, g, h)
        /\ result' = Err(with_related(ParseError("DuplicateAttribute", Span(i, h)),
                                       Span(i, g)))

DuplicateOutcome ==
    IF HasDuplicateNames(Cur.attrs)
    THEN DuplicateReported(pos, Cur.attrs)
    ELSE ~(result'.status = "err" /\ result'.error[1].kind = "DuplicateAttribute")

MaxHeaderTokens == 4

CharsParamDefault == <<"n", ":", "t", "=", "1">>
CharsDictAssign == <<"x", "=", "{", ":", "}">>
CharsVariadicTyped == <<"*", "a", ":", "t">>
CharsVariadic == <<"*", "a">>
CharsIfLine == <<"i", "f", " ", "x", ":", "y">>

HeaderAlphabet ==
    {Line("PythonStatement", "", code) :
        code \in {CharsParam, CharsParamDefault, CharsAssign, CharsDictAssign,
                  CharsVariadicTyped, CharsVariadic, CharsIfLine}}
    \cup {Tok("Separator", ""), Tok("Text", ""),
          Tag("HtmlElementOpen", "div", FALSE, <<>>), Tok("HtmlElementClose", "div")}

InitHeader == ParserInit(HeaderAlphabet, MaxHeaderTokens)

NextHeader ==
    \/ ParseSkip \/ ParseSeparator \/ ParseLeaf \/ ParseStatement
    \/ ElementOpen \/ ElementClose \/ UnclosedTag
    \/ BuildDone

SpecHeader == InitHeader /\ [][NextHeader]_vars

SeparatorBefore(i) == \E h \in 1..(i - 1) : tokens[h].t = "Separator"

\* the text holds a colon that, unless the text starts with `*`, comes
\* before any `=`
ParameterShape(code) ==
    /\ \E c \in 1..Len(code) :
          /\ code[c] = ":"
          /\ code[1] = "*" \/ \A e \in 1..(c - 1) : code[e] # "="
    /\ \/ Len(code) < 3
       \/ SubSeq(code, 1, 3) # <<"i", "f", " ">>

(***************************************************************************)
(* C8.  A Parameter node is only ever made from a statement that the       *)
(* parser consumed before the first separator and that has the parameter   *)
(* shape; the in_header flag is true exactly while no separator has been   *)
(* consumed, and once false it stays false for the rest of the parse.      *)
(***************************************************************************)
C8_HeaderZone ==
    /\ [](\A n \in BuiltNodes :
            n.kind = "Parameter"
            => /\ tokens[n.span.tok].t = "PythonStatement"
               /\ ~SeparatorBefore(n.span.tok + 1)
               /\ ParameterShape(tokens[n.span.tok].code))
    /\ [](in_header <=> ~SeparatorBefore(pos))
    /\ [][~in_header => ~in_header']_vars

\* after the separator a line of parameter shape became a plain statement,
\* while the same line before it became a parameter
C8_Witness ==
    /\ ~in_header
    /\ \E n, m \in BuiltNodes :
          /\ n.kind = "Parameter" /\ m.kind = "Statement"
          /\ tokens[n.span.tok].code = CharsParam
          /\ tokens[m.span.tok].code = CharsParam
          /\ n.span.tok < m.span.tok

(***************************************************************************)
(* C9.  A slot open tag, anonymous (`<{...}>`) or named (`<{...name}>`),   *)
(* consumes the following nodes as fallback content until the matching     *)
(* slot close, and a missing close makes the parse fail with UnclosedSlot  *)
(* related to the slot open: so no parse succeeds on a slot open that has  *)
(* no later close of the same name, and a node that follows a slot open    *)
(* is never appended next to the slot it should be the fallback of.        *)
(***************************************************************************)
HasSlotClose(i) ==
    \E j \in (i + 1)..Len(tokens) :
        tokens[j].t = "SlotClose" /\ tokens[j].k = tokens[i].k

C9_SlotFallback ==
    result.status = "ok"
    => \A i \in 1..Len(tokens) : tokens[i].t = "SlotOpen" => HasSlotClose(i)

\* before tokenize(source) is called
InitTokenize ==
    /\ GeneratorIdle /\ TransformerIdle /\ DaemonIdle /\ TranspilerIdle
    /\ source = <<>>
    /\ position = 0
    /\ in_multiline_string = None
    /\ tokens = <<>>
    /\ pc = "new"
    /\ locals = NoLocals
    /\ pos = 1
    /\ in_header = TRUE
    /\ element_stack = <<>>
    /\ stack = <<>>
    /\ result = Pending

\* the tokenizer is sequential code: a step that can be taken is taken
SpecTokenize == InitTokenize /\ [][NextTokenize]_vars /\ WF_vars(NextTokenize)

\* the offset at which the pass over the current line started
PassStart == IF pc = "tokenize" THEN position ELSE locals.indent_start

EofCount == Cardinality({i \in 1..Len(tokens) : tokens[i].t = "Eof"})

(***************************************************************************)
(* C10.  Tokenization terminates for every input; each pass over a line    *)
(* (each call of tokenize_line) consumes at least one character; and the   *)
(* token vector returned ends with the one and only Eof token, whose       *)
(* position is the end of the input.                                       *)
(***************************************************************************)
C10_TokenizeTerminates ==
    /\ <>(pc = "returned")
    /\ [][(pc # "new" /\ pc' = "tokenize") => position' > PassStart]_vars
    /\ [](pc = "returned"
          => /\ tokens # <<>>
             /\ tokens[Len(tokens)] = Token("Eof", Len(source), Len(source))
             /\ EofCount = 1)
    /\ [](pc # "returned" => EofCount = 0)

\* a returned vector for an input of three lines whose last has no newline
\* and ends inside a tag
C10_Witness ==
    /\ pc = "returned"
    /\ Cardinality({i \in 1..Len(tokens) : tokens[i].t = "Newline"}) = 2
    /\ tokens[Len(tokens) - 1].t = "HtmlElementOpen"
    /\ source[Len(source)] # ">"

(***************************************************************************)
(* HyperParser::parse (parser/mod.rs): tokenize(source), then              *)
(* TreeBuilder::new(tokens, ..).build().  The tree builder's half of the   *)
(* model reads a token by its variant, name and code, so the vector is     *)
(* handed over in that form; the templates are lines of plain text,        *)
(* statements and the separator, whose tokens carry nothing else.          *)
(***************************************************************************)
NotStarted == [status |-> "idle", nodes |-> <<>>, error |-> None]

TreeToken(tok) ==
    IF tok.t = "PythonStatement" THEN Line("PythonStatement", "", tok.code)
    ELSE IF tok.t = "Eof" THEN EofTok
    ELSE Tok(tok.t, "")

\* the call of TreeBuilder::new on the vector tokenize returned
Parse ==
    /\ pc = "returned"
    /\ pc' = "build"
    /\ tokens' = [i \in 1..Len(tokens) |-> TreeToken(tokens[i])]
    /\ pos' = 1
    /\ in_header' = TRUE
    /\ element_stack' = <<>>
    /\ stack' = <<Frame("build", "", "", 0, "", <<>>)>>
    /\ result' = Pending
    /\ UNCHANGED <<generator, transformer, daemon, transpiler, source, position, in_multiline_string, locals>>

MaxLines == 3

TemplateLines ==
    {<<"-", "-", "-">>,
     <<"n", ":", "t">>,
     <<"n", ":", " ", "t">>,
     <<"n", ":", "t", "=", "1">>,
     <<"n">>,
     <<"_", "n", "1">>,
     <<"x", " ", "=", " ", "1">>,
     <<"*", "a", ":", "t">>,
     <<" ", "n", ":", "t">>,
     <<>>}

RECURSIVE JoinLines(_)
JoinLines(ls) ==
    IF ls = <<>> THEN <<>>
    ELSE IF Len(ls) = 1 THEN ls[1]
    ELSE ls[1] \o <<"\n">> \o JoinLines(Tail(ls))

Templates == {JoinLines(ls) : ls \in SeqsUpTo(TemplateLines, MaxLines)}

NewTemplate ==
    /\ pc = "new"
    /\ source' \in Templates
    /\ pc' = "tokenize"
    /\ UNCHANGED <<generator, transformer, daemon, transpiler, position, in_multiline_string, tokens, locals, parser>>

InitParse ==
    /\ GeneratorIdle /\ TransformerIdle /\ DaemonIdle /\ TranspilerIdle
    /\ source = <<>>
    /\ position = 0
    /\ in_multiline_string = None
    /\ tokens = <<>>
    /\ pc = "new"
    /\ locals = NoLocals
    /\ pos = 1
    /\ in_header = TRUE
    /\ element_stack = <<>>
    /\ stack = <<>>
    /\ result = NotStarted

NextParse ==
    \/ NewTemplate
    \/ LineBlank \/ LineToken \/ LineContent \/ LineStatement \/ StatementDone
    \/ ContentChar \/ ContentDone \/ TokenizeEof
    \/ Parse
    \/ ParseSkip \/ ParseSeparator \/ ParseLeaf \/ ParseStatement \/ BuildDone

SpecParse == InitParse /\ [][NextParse]_vars

\* `name: type`: an identifier, a colon, and a type with no `=` in it
AnnotationShape(code) ==
    \E line \in {Trim(code)} : \E colon \in {Find(line, <<":">>)} :
        /\ colon > 1
        /\ line[1] \in Alphabetic \cup {"_"}
        /\ \A c \in 1..(colon - 1) : line[c] \in Alphanumeric \cup {"_"}
        /\ ~Contains(line, <<"=">>)

BareIdentifier(code) ==
    \E line \in {Trim(code)} :
        /\ line # <<>>
        /\ line[1] \in Alphabetic \cup {"_"}
        /\ \A c \in 1..Len(line) : line[c] \in Alphanumeric \cup {"_"}

(***************************************************************************)
(* C11 as stated.  A line that merely looks like a type annotation         *)
(* (`name: type`) or a bare identifier is never turned into an executable  *)
(* statement: wherever it is in the template, also after the separator,    *)
(* no Statement node is built from it.                                     *)
(***************************************************************************)
C11_NeverStatement ==
    pc = "build"
    => \A n \in BuiltNodes :
          n.kind = "Statement"
          => /\ ~AnnotationShape(tokens[n.span.tok].code)
             /\ ~BareIdentifier(tokens[n.span.tok].code)

(***************************************************************************)
(* Statements over several lines: tokenize on sources whose lines open and *)
(* close brackets, hold brackets in strings and comments, and end with a   *)
(* backslash.                                                              *)
(***************************************************************************)
MaxStatementLines == 3

StatementLines ==
    {<<"x", " ", "=", " ", "(", "1", ",">>,
     <<"n", ":", "t", "=", "[">>,
     <<" ", "2", ")">>,
     <<"]", " ", "+", " ", "\\">>,
     <<" ", "'", ")", "'", " ", "#", "]">>,
     <<"3">>,
     <<>>,
     <<"#", "(">>,
     <<"\"", "\"", "\"">>,
     <<"<", "{", "a", "}", " ", "b", ">">>,
     <<"<", "a", " ", "b", ">", " ", "#">>}

StatementSources == {JoinLines(ls) : ls \in SeqsUpTo(StatementLines, MaxStatementLines)}

NewStatements ==
    /\ pc = "new"
    /\ source' \in StatementSources
    /\ pc' = "tokenize"
    /\ UNCHANGED <<generator, transformer, daemon, transpiler, position, in_multiline_string, tokens, locals, parser>>

NextStatements ==
    \/ NewStatements
    \/ LineBlank \/ LineInString \/ LineStringStart \/ LineToken
    \/ LineComponentOpen \/ LineContent \/ LineStatement
    \/ StatementContinue \/ StatementDone
    \/ ContentChar \/ ContentComment \/ ContentElementOpen \/ ContentDone
    \/ HtmlTagAttribute \/ HtmlTagDone \/ ComponentTagAttribute \/ ComponentTagDone
    \/ TokenizeEof

SpecStatements == InitTokenize /\ [][NextStatements]_vars

\* the tokens of tokenize_python_statement
IsStatementToken(tok) == tok.t = "PythonStatement" /\ "code" \in DOMAIN tok

\* the text is complete: its brackets are closed and it does not end with a
\* continuation backslash
Complete(code) ==
    /\ calculate_bracket_depth(code) = 0
    /\ ~EndsWith(TrimEnd(code), <<"\\">>)

\* the text up to each of its line ends
LinePrefixes(code) == {SubSeq(code, 1, c - 1) : c \in {d \in 1..Len(code) : code[d] = "\n"}}

(***************************************************************************)
(* C12 as stated.  A statement token keeps absorbing the lines that follow *)
(* exactly until the net bracket depth (brackets in strings and after a    *)
(* trailing # comment not counted) is back at zero and the last line       *)
(* absorbed does not end with a continuation backslash: the token ends at  *)
(* a complete text or at the end of input, and at no earlier line end was  *)
(* its text complete.                                                      *)
(***************************************************************************)
C12_StatementExtent ==
    \A i \in 1..Len(tokens) :
        IsStatementToken(tokens[i])
        => /\ Complete(tokens[i].code) \/ tokens[i].end = Len(source)
           /\ \A prefix \in LinePrefixes(tokens[i].code) : ~Complete(prefix)

(***************************************************************************)
(* The generator (src/generate/output.rs, src/generate/python.rs).          *)
(*                                                                         *)
(* A string is a sequence of characters.  A character outside ASCII is     *)
(* written by its code point: "U+00E9" (two bytes in UTF-8, one UTF-16     *)
(* unit), "U+2039" and "U+203A" (the marker brackets the generator writes, *)
(* three bytes, one unit), "U+1F44B" (four bytes, two units).              *)
(***************************************************************************)
\* char::len_utf8
Utf8Len(ch) ==
    CASE ch = "U+00E9" -> 2
      [] ch \in {"U+2039", "U+203A", "U+FFFD"} -> 3
      [] ch = "U+1F44B" -> 4
      [] OTHER -> 1

\* char::len_utf16
Utf16Len(ch) == IF ch = "U+1F44B" THEN 2 ELSE 1

\* str::len: the length in bytes
ByteLen(s) ==
    Len(s) + Cardinality({i \in 1..Len(s) : Utf8Len(s[i]) >= 2})
           + Cardinality({i \in 1..Len(s) : Utf8Len(s[i]) >= 3})
           + Cardinality({i \in 1..Len(s) : Utf8Len(s[i]) >= 4})

\* str::encode_utf16: the UTF-16 code units, each <<character, "whole" | "high" | "low">>
RECURSIVE encode_utf16(_)
encode_utf16(s) ==
    IF s = <<>> THEN <<>>
    ELSE IF Len(s) = 1
    THEN IF Utf16Len(s[1]) = 2 THEN <<<<s[1], "high">>, <<s[1], "low">>>>
         ELSE <<<<s[1], "whole">>>>
    ELSE encode_utf16(SubSeq(s, 1, Len(s) \div 2))
         \o encode_utf16(SubSeq(s, Len(s) \div 2 + 1, Len(s)))

\* String::from_utf16_lossy: a surrogate without its other half becomes U+FFFD
from_utf16_lossy(u) ==
    LET decoded == [i \in 1..Len(u) |->
                       CASE u[i][2] = "whole" -> u[i][1]
                         [] u[i][2] = "low" ->
                              IF i > 1 /\ u[i - 1] = <<u[i][1], "high">>
                              THEN u[i][1] ELSE "U+FFFD"
                         [] u[i][2] = "high" ->
                              IF i < Len(u) /\ u[i + 1] = <<u[i][1], "low">>
                              THEN "" ELSE "U+FFFD"]
    IN  SelectSeq(decoded, LAMBDA ch : ch # "")

\* the byte offsets at which a character of s starts, and the end of s
CharBoundaries(s) == {ByteLen(SubSeq(s, 1, i)) : i \in 0..Len(s)}

\* &s[a..b] by byte offsets; the slice panics off a character boundary or out of bounds
Panic == <<"panic">>
ByteSlice(s, a, b) ==
    IF a <= b /\ a \in CharBoundaries(s) /\ b \in CharBoundaries(s)
    THEN LET first == CHOOSE i \in 0..Len(s) : ByteLen(SubSeq(s, 1, i)) = a
             last == CHOOSE i \in 0..Len(s) : ByteLen(SubSeq(s, 1, i)) = b
         IN  SubSeq(s, first + 1, last)
    ELSE Panic

\* byte_to_utf16 (parser/positions.rs)
byte_to_utf16(s, byte_offset) ==
    LET clamped == IF byte_offset < ByteLen(s) THEN byte_offset ELSE ByteLen(s)
    IN  Len(encode_utf16(ByteSlice(s, 0, clamped)))

\* str::trim_end_matches(':')
trim_end_colons(s) ==
    LET loop[n \in 0..Len(s)] ==
            IF n > 0 /\ s[n] = ":" THEN loop[n - 1] ELSE SubSeq(s, 1, n)
    IN  loop[Len(s)]

\* str::replace
replace(s, from, to) ==
    LET loop[i \in 1..(Len(s) + 1)] ==
            IF i > Len(s) THEN <<>>
            ELSE IF i + Len(from) - 1 <= Len(s) /\ SubSeq(s, i, i + Len(from) - 1) = from
                 THEN to \o loop[i + Len(from)]
                 ELSE <<s[i]>> \o loop[i + 1]
    IN  loop[1]

\* Vec<String>::join("")
Join(ls) ==
    LET cat[i \in 0..Len(ls)] == IF i = 0 THEN <<>> ELSE cat[i - 1] \o ls[i]
    IN  cat[Len(ls)]

(***************************************************************************)
(* Output (output.rs): the lines finished so far, the line being written   *)
(* the line mappings and the ranges.                                       *)
(***************************************************************************)
ByteSpan(s, e) == [start |-> s, end |-> e]

Range(ss, se, cs, ce, ni) ==
    [range_type |-> "Python", source_start |-> ss, source_end |-> se,
     compiled_start |-> cs, compiled_end |-> ce, needs_injection |-> ni]

Mapping(gen_line, gen_col, src_line) ==
    [gen_line |-> gen_line, gen_col |-> gen_col, src_line |-> src_line, src_col |-> 0]

NewOutput ==
    [lines |-> <<>>, current_line |-> <<>>, line_number |-> 0, mappings |-> <<>>,
     ranges |-> <<>>]

push(out, text) == [out EXCEPT !.current_line = @ \o text]

\* Output::push_mapped: the text, and a mapping of the current line to the
\* source line (PythonGenerator calls push only)
push_mapped(out, text, src_line) ==
    [out EXCEPT !.current_line = @ \o text,
                !.mappings = Append(@, Mapping(out.line_number, ByteLen(out.current_line), src_line))]

newline(out) ==
    [out EXCEPT !.lines = Append(@, out.current_line \o <<"\n">>),
                !.current_line = <<>>,
                !.line_number = @ + 1]

add_range(out, range) == [out EXCEPT !.ranges = Append(@, range)]

\* Output::position: the UTF-16 length of what was written
output_position(out) ==
    LET so_far == Join(out.lines) \o out.current_line
    IN  Len(so_far) + Cardinality({i \in 1..Len(so_far) : Utf16Len(so_far[i]) = 2})

\* Output::finish: (code, mappings, ranges)
finish(out) ==
    [code |-> Join(IF out.current_line # <<>>
                   THEN Append(out.lines, out.current_line)
                   ELSE out.lines),
     mappings |-> out.mappings,
     ranges |-> out.ranges]

(***************************************************************************)
(* The AST the generator reads (src/ast.rs): the variants of Node with the *)
(* fields generate() uses; spans are byte offsets into the source.         *)
(***************************************************************************)
Text(content) == [kind |-> "Text", content |-> content]
Expression(expr, span) == [kind |-> "Expression", expr |-> expr, span |-> span, escape |-> TRUE]
Element(tag, attributes, children, self_closing) ==
    [kind |-> "Element", tag |-> tag, attributes |-> attributes,
     children |-> children, self_closing |-> self_closing]
Component(name, attributes, children) ==
    [kind |-> "Component", name |-> name, attributes |-> attributes, children |-> children]
Fragment(children) == [kind |-> "Fragment", children |-> children]
Slot(name) == [kind |-> "Slot", name |-> name, fallback |-> <<>>]
If(condition, condition_span, then_branch, elif_branches, else_branch) ==
    [kind |-> "If", condition |-> condition, condition_span |-> condition_span,
     then_branch |-> then_branch, elif_branches |-> elif_branches,
     else_branch |-> else_branch]
Elif(condition, condition_span, body) ==
    [condition |-> condition, condition_span |-> condition_span, body |-> body]
For(binding, iterable, iterable_span, body, is_async) ==
    [kind |-> "For", binding |-> binding, iterable |-> iterable,
     iterable_span |-> iterable_span, body |-> body, is_async |-> is_async]
While(condition, condition_span, body) ==
    [kind |-> "While", condition |-> condition, condition_span |-> condition_span,
     body |-> body]
With(items, items_span, body, is_async) ==
    [kind |-> "With", items |-> items, items_span |-> items_span, body |-> body,
     is_async |-> is_async]
Match(expr, expr_span, cases) ==
    [kind |-> "Match", expr |-> expr, expr_span |-> expr_span, cases |-> cases]
Case(pattern, pattern_span, body) ==
    [pattern |-> pattern, pattern_span |-> pattern_span, body |-> body]
Try(body, except_clauses, else_clause, finally_clause) ==
    [kind |-> "Try", body |-> body, except_clauses |-> except_clauses,
     else_clause |-> else_clause, finally_clause |-> finally_clause]
Except(exception, body) == [exception |-> exception, body |-> body]
Statement(stmt) == [kind |-> "Statement", stmt |-> stmt]
Definition(signature, body) == [kind |-> "Definition", signature |-> signature, body |-> body]
Import(stmt) == [kind |-> "Import", stmt |-> stmt]
Parameter(name, type_hint, default, span) ==
    [kind |-> "Parameter", name |-> name, type_hint |-> type_hint,
     default |-> default, span |-> span]
Decorator(decorator) == [kind |-> "Decorator", decorator |-> decorator]

\* AttributeKind
Static(name, value) == [kind |-> "Static", name |-> name, value |-> value]
Dynamic(name, expr, expr_span) ==
    [kind |-> "Dynamic", name |-> name, expr |-> expr, expr_span |-> expr_span]
Boolean(name) == [kind |-> "Boolean", name |-> name]
Shorthand(name, expr_span) == [kind |-> "Shorthand", name |-> name, expr_span |-> expr_span]
Spread(expr, expr_span) == [kind |-> "Spread", expr |-> expr, expr_span |-> expr_span]

(***************************************************************************)
(* PythonGenerator (generate/python.rs)                                    *)
(***************************************************************************)
safe_var_name(name) ==
    CASE name = <<"c", "l", "a", "s", "s">> -> <<"_", "c", "l", "a", "s", "s">>
      [] name = <<"t", "y", "p", "e">> -> <<"_", "t", "y", "p", "e">>
      [] OTHER -> name

RECURSIVE is_combinable(_)
is_combinable(node) ==
    CASE node.kind \in {"Text", "Expression"} -> TRUE
      [] node.kind = "Element" ->
            \A c \in 1..Len(node.children) : is_combinable(node.children[c])
      [] OTHER -> FALSE

RECURSIVE node_has_expressions(_)
node_has_expressions(node) ==
    CASE node.kind = "Expression" -> TRUE
      [] node.kind = "Element" ->
            \/ \E a \in 1..Len(node.attributes) :
                  node.attributes[a].kind \notin {"Static", "Boolean"}
            \/ \E c \in 1..Len(node.children) : node_has_expressions(node.children[c])
      [] OTHER -> FALSE

is_boolean_attribute(name) ==
    name \in {<<"d", "i", "s", "a", "b", "l", "e", "d">>, <<"c", "h", "e", "c", "k", "e", "d">>, <<"r", "e", "a", "d", "o", "n", "l", "y">>, <<"r", "e", "q", "u", "i", "r", "e", "d">>, <<"a", "u", "t", "o", "f", "o", "c", "u", "s">>, <<"a", "u", "t", "o", "p", "l", "a", "y">>,
              <<"c", "o", "n", "t", "r", "o", "l", "s">>, <<"l", "o", "o", "p">>, <<"m", "u", "t", "e", "d">>, <<"s", "e", "l", "e", "c", "t", "e", "d">>, <<"o", "p", "e", "n">>, <<"h", "i", "d", "d", "e", "n">>, <<"a", "s", "y", "n", "c">>,
              <<"d", "e", "f", "e", "r">>, <<"n", "o", "v", "a", "l", "i", "d", "a", "t", "e">>, <<"f", "o", "r", "m", "n", "o", "v", "a", "l", "i", "d", "a", "t", "e">>, <<"i", "s", "m", "a", "p">>, <<"m", "u", "l", "t", "i", "p", "l", "e">>,
              <<"r", "e", "v", "e", "r", "s", "e", "d">>, <<"s", "c", "o", "p", "e", "d">>}

RECURSIVE node_has_markers(_)
node_has_markers(node) ==
    CASE node.kind = "Expression" -> node.escape
      [] node.kind = "Element" ->
            \/ \E a \in 1..Len(node.attributes) :
                  LET attr == node.attributes[a]
                  IN  \/ /\ attr.kind = "Dynamic"
                         /\ \/ attr.name = <<"c", "l", "a", "s", "s">>
                            \/ attr.name = <<"s", "t", "y", "l", "e">>
                            \/ is_boolean_attribute(attr.name)
                      \/ attr.kind \in {"Shorthand", "Spread"}
            \/ \E c \in 1..Len(node.children) : node_has_markers(node.children[c])
      [] OTHER -> FALSE

content_has_markers(nodes) == \E n \in 1..Len(nodes) : node_has_markers(nodes[n])

\* PythonGenerator::indent
indent(out, level) ==
    LET loop[n \in 0..level] == IF n = 0 THEN out ELSE push(loop[n - 1], <<" ", " ", " ", " ">>)
    IN  loop[level]

\* the marker a dynamic attribute of this name is wrapped in: (opening, closing)
DynamicMarker(name) ==
    CASE name = <<"c", "l", "a", "s", "s">> -> <<<<"=", "U+2039", "C", "L", "A", "S", "S", ":", "{">>, <<"}", "U+203A">>>>
      [] name = <<"s", "t", "y", "l", "e">> -> <<<<"=", "U+2039", "S", "T", "Y", "L", "E", ":", "{">>, <<"}", "U+203A">>>>
      [] is_boolean_attribute(name) -> <<<<"=", "U+2039", "B", "O", "O", "L", ":", "{">>, <<"}", "U+203A">>>>
      [] OTHER -> <<<<"=", "\"", "{">>, <<"}", "\"">>>>

ShorthandMarker(name) ==
    CASE name = <<"c", "l", "a", "s", "s">> -> <<"=", "U+2039", "C", "L", "A", "S", "S", ":", "{">>
      [] name = <<"s", "t", "y", "l", "e">> -> <<"=", "U+2039", "S", "T", "Y", "L", "E", ":", "{">>
      [] name = <<"d", "a", "t", "a">> -> <<"=", "U+2039", "D", "A", "T", "A", ":", "{">>
      [] name = <<"a", "r", "i", "a">> -> <<"=", "U+2039", "A", "R", "I", "A", ":", "{">>
      [] is_boolean_attribute(name) -> <<"=", "U+2039", "B", "O", "O", "L", ":", "{">>
      [] OTHER -> <<"=", "U+2039", "S", "P", "R", "E", "A", "D", ":", "{">>

SpreadMarker(trimmed_expr) ==
    CASE trimmed_expr = <<"c", "l", "a", "s", "s">> -> <<" ", "c", "l", "a", "s", "s", "=", "U+2039", "C", "L", "A", "S", "S", ":", "{">>
      [] trimmed_expr = <<"s", "t", "y", "l", "e">> -> <<" ", "s", "t", "y", "l", "e", "=", "U+2039", "S", "T", "Y", "L", "E", ":", "{">>
      [] trimmed_expr = <<"d", "a", "t", "a">> -> <<" ", "d", "a", "t", "a", "=", "U+2039", "D", "A", "T", "A", ":", "{">>
      [] trimmed_expr = <<"a", "r", "i", "a">> -> <<" ", "a", "r", "i", "a", "=", "U+2039", "A", "R", "I", "A", ":", "{">>
      [] OTHER -> <<" ", "U+2039", "S", "P", "R", "E", "A", "D", ":", "{">>

\* the source span of a dynamic attribute's value: expr_span without its braces
DynamicContent(expr_span) == ByteSpan(expr_span.start + 1, expr_span.end - 1)

emit_attribute_content(attr, out, in_fstring) ==
    CASE attr.kind = "Static" ->
            push(push(push(push(push(out, <<" ">>), attr.name), <<"=", "\"">>), attr.value), <<"\"">>)
      [] attr.kind = "Dynamic" ->
            IF in_fstring
            THEN LET content == DynamicContent(attr.expr_span)
                     safe_expr == safe_var_name(Trim(attr.expr))
                     marker == DynamicMarker(attr.name)
                     opened == push(push(push(out, <<" ">>), attr.name), marker[1])
                     start == output_position(opened)
                     written == push(opened, safe_expr)
                     end == output_position(written)
                 IN  push(add_range(written, Range(content.start, content.end, start, end, TRUE)),
                          marker[2])
            ELSE out
      [] attr.kind = "Boolean" -> push(push(out, <<" ">>), attr.name)
      [] attr.kind = "Shorthand" ->
            IF in_fstring
            THEN push(push(push(push(push(out, <<" ">>), attr.name), ShorthandMarker(attr.name)),
                           safe_var_name(attr.name)), <<"}", "U+203A">>)
            ELSE out
      [] attr.kind = "Spread" ->
            IF in_fstring
            THEN push(push(push(out, SpreadMarker(Trim(attr.expr))),
                           safe_var_name(Trim(attr.expr))), <<"}", "U+203A">>)
            ELSE out

RECURSIVE emit_node_content(_, _, _)
emit_element_content(el, out, in_fstring) ==
    LET opened == push(push(out, <<"<">>), el.tag)
        attrs[a \in 0..Len(el.attributes)] ==
            IF a = 0 THEN opened
            ELSE emit_attribute_content(el.attributes[a], attrs[a - 1], in_fstring)
        tagged == attrs[Len(el.attributes)]
    IN  IF el.self_closing THEN push(tagged, <<" ", "/", ">">>)
        ELSE LET children[c \in 0..Len(el.children)] ==
                     IF c = 0 THEN push(tagged, <<">">>)
                     ELSE emit_node_content(el.children[c], children[c - 1], in_fstring)
             IN  push(push(push(children[Len(el.children)], <<"<", "/">>), el.tag), <<">">>)

\* the range of a text expression: the span of the expression, braces included
ExpressionRange(expr, start, end) == Range(expr.span.start, expr.span.end, start, end, TRUE)

emit_node_content(node, out, in_fstring) ==
    CASE node.kind = "Text" -> push(out, node.content)
      [] node.kind = "Expression" ->
            IF in_fstring
            THEN LET opened == IF node.escape THEN push(out, <<"U+2039", "E", "S", "C", "A", "P", "E", ":">>) ELSE out
                     start == output_position(opened)
                     written == push(push(push(opened, <<"{">>), node.expr), <<"}">>)
                     end == output_position(written)
                     closed == IF node.escape THEN push(written, <<"U+203A">>) ELSE written
                 IN  add_range(closed, ExpressionRange(node, start, end))
            ELSE out
      [] node.kind = "Element" -> emit_element_content(node, out, in_fstring)
      [] OTHER -> out

emit_combined_nodes(nodes, out, level) ==
    LET has_expressions == \E n \in 1..Len(nodes) : node_has_expressions(nodes[n])
        has_markers == content_has_markers(nodes)
        opened == push(indent(out, level),
                       IF has_markers THEN <<"y", "i", "e", "l", "d", " ", "r", "e", "p", "l", "a", "c", "e", "_", "m", "a", "r", "k", "e", "r", "s", "(", "f", "\"", "\"", "\"">>
                       ELSE IF has_expressions THEN <<"y", "i", "e", "l", "d", " ", "f", "\"", "\"", "\"">>
                       ELSE <<"y", "i", "e", "l", "d", " ", "\"", "\"", "\"">>)
        content[n \in 0..Len(nodes)] ==
            IF n = 0 THEN opened
            ELSE emit_node_content(nodes[n], content[n - 1], has_expressions)
    IN  newline(push(content[Len(nodes)], IF has_markers THEN <<"\"", "\"", "\"", ")">> ELSE <<"\"", "\"", "\"">>))

\* fn escape_string
escape_string(s) ==
    replace(replace(replace(replace(s, <<"\\">>, <<"\\", "\\">>), <<"\"">>, <<"\\", "\"">>), <<"\n">>, <<"\\", "n">>),
            <<"\t">>, <<"\\", "t">>)

emit_text(text, out, level) ==
    newline(push(push(push(indent(out, level), <<"y", "i", "e", "l", "d", " ", "\"">>), escape_string(text.content)), <<"\"">>))

emit_expression(expr, out, level) ==
    newline(push(push(push(indent(out, level),
                           IF expr.escape THEN <<"y", "i", "e", "l", "d", " ", "e", "s", "c", "a", "p", "e", "(">> ELSE <<"y", "i", "e", "l", "d", " ", "s", "t", "r", "(">>),
                      expr.expr), <<")">>))

emit_attribute(attr, out) ==
    CASE attr.kind = "Static" ->
            push(push(push(push(push(out, <<" ">>), attr.name), <<"=", "\\", "\"">>),
                      escape_string(attr.value)), <<"\\", "\"">>)
      [] attr.kind = "Dynamic" ->
            push(push(push(push(push(out, <<" ">>), attr.name), <<"=", "\\", "\"", "{">>), attr.expr), <<"}", "\\", "\"">>)
      [] attr.kind = "Boolean" -> push(push(out, <<" ">>), attr.name)
      [] attr.kind = "Shorthand" ->
            push(push(push(push(push(out, <<" ">>), attr.name), <<"=", "\\", "\"", "{">>), attr.name), <<"}", "\\", "\"">>)
      [] attr.kind = "Spread" -> push(push(push(out, <<" ", "{">>), attr.expr), <<"}">>)

UpperCase == <<"A", "B", "C", "D", "E", "F", "G", "H", "I", "J", "K", "L", "M", "N", "O", "P", "Q", "R", "S", "T", "U", "V", "W", "X", "Y", "Z">>
LowerCase == <<"a", "b", "c", "d", "e", "f", "g", "h", "i", "j", "k", "l", "m", "n", "o", "p", "q", "r", "s", "t", "u", "v", "w", "x", "y", "z">>
is_uppercase(ch) == \E i \in 1..Len(UpperCase) : UpperCase[i] = ch
char_to_ascii_lowercase(ch) ==
    IF is_uppercase(ch) THEN LowerCase[CHOOSE i \in 1..Len(UpperCase) : UpperCase[i] = ch]
    ELSE ch

component_to_func_name(name) ==
    LET loop[i \in 0..Len(name)] ==
            IF i = 0 THEN <<"_">>
            ELSE loop[i - 1]
                 \o (IF is_uppercase(name[i]) /\ i > 1 THEN <<"_">> ELSE <<>>)
                 \o <<char_to_ascii_lowercase(name[i])>>
    IN  loop[Len(name)]

\* one keyword argument of a component call (the other attribute kinds write nothing)
ComponentArgument(attr, out) ==
    CASE attr.kind = "Static" ->
            push(push(push(push(out, attr.name), <<"=", "\"">>), escape_string(attr.value)), <<"\"">>)
      [] attr.kind = "Dynamic" -> push(push(push(out, attr.name), <<"=">>), attr.expr)
      [] OTHER -> out

emit_slot(s, out, level) ==
    LET slot_var == IF IsSome(s.name) THEN <<"_">> \o s.name[1] \o <<"_", "c", "o", "n", "t", "e", "n", "t">> ELSE <<"_", "c", "o", "n", "t", "e", "n", "t">>
        header == newline(push(push(push(indent(out, level), <<"i", "f", " ">>), slot_var),
                               <<" ", "i", "s", " ", "n", "o", "t", " ", "N", "o", "n", "e", ":">>))
    IN  newline(push(push(indent(header, level + 1), <<"y", "i", "e", "l", "d", " ", "f", "r", "o", "m", " ">>), slot_var))

emit_statement(stmt, out, level) ==
    LET statement == replace(replace(replace(replace(stmt.stmt, <<"c", "l", "a", "s", "s", " ", "=">>, <<"_", "c", "l", "a", "s", "s", " ", "=">>),
                                             <<"c", "l", "a", "s", "s", "=">>, <<"_", "c", "l", "a", "s", "s", "=">>),
                                     <<"t", "y", "p", "e", " ", "=">>, <<"_", "t", "y", "p", "e", " ", "=">>),
                             <<"t", "y", "p", "e", "=">>, <<"_", "t", "y", "p", "e", "=">>)
    IN  newline(push(indent(out, level), statement))

emit_import(import, out, level) == newline(push(out, import.stmt))

emit_decorator(dec, out, level) == newline(push(indent(out, level), dec.decorator))

\* `pass` on a line of its own
emit_pass(out, level) == newline(push(indent(out, level), <<"p", "a", "s", "s">>))

\* a block header with a range over the part of it the source gives:
\* the keyword, the text with its trailing colon and whitespace removed, `:`
emit_header(out, level, keyword, text, span) ==
    LET trimmed == Trim(trim_end_colons(text))
        opened == push(indent(out, level), keyword)
        start == output_position(opened)
        written == push(opened, trimmed)
        end == output_position(written)
        source_end == span.start + ByteLen(trimmed)
    IN  newline(push(add_range(written, Range(span.start, source_end, start, end, TRUE)), <<":">>))

RECURSIVE emit_nodes_from(_, _, _, _)
RECURSIVE emit_node(_, _, _)

\* PythonGenerator::emit_nodes
emit_nodes(nodes, out, level) == emit_nodes_from(nodes, 1, out, level)

\* the body of a block: `pass` if the vector is empty, else emit_nodes
emit_body(body, out, level) ==
    IF body = <<>> THEN emit_pass(out, level) ELSE emit_nodes(body, out, level)

\* the loop of emit_nodes from index i; what one step has written is a value
\* before the loop goes on
emit_nodes_from(nodes, i, out, level) ==
    IF i > Len(nodes) THEN out
    ELSE LET ends == {j \in (i + 1)..(Len(nodes) + 1) :
                         j > Len(nodes) \/ ~is_combinable(nodes[j])}
             j == IF is_combinable(nodes[i]) THEN CHOOSE e \in ends : \A f \in ends : e <= f
                  ELSE i + 1
         IN  CHOOSE written \in
                 {emit_nodes_from(nodes, j, emitted, level) :
                     emitted \in {IF is_combinable(nodes[i])
                                  THEN emit_combined_nodes(SubSeq(nodes, i, j - 1), out, level)
                                  ELSE emit_node(nodes[i], out, level)}} : TRUE

emit_element(el, out, level) ==
    LET opened == push(push(indent(out, level), <<"y", "i", "e", "l", "d", " ", "\"", "<">>), el.tag)
        attrs[a \in 0..Len(el.attributes)] ==
            IF a = 0 THEN opened ELSE emit_attribute(el.attributes[a], attrs[a - 1])
        tagged == attrs[Len(el.attributes)]
    IN  IF el.self_closing THEN newline(push(tagged, <<" ", "/", ">", "\"">>))
        ELSE LET children[c \in 0..Len(el.children)] ==
                     IF c = 0 THEN newline(push(tagged, <<">", "\"">>))
                     ELSE emit_node(el.children[c], children[c - 1], level)
             IN  newline(push(push(push(indent(children[Len(el.children)], level),
                                        <<"y", "i", "e", "l", "d", " ", "\"", "<", "/">>), el.tag), <<">", "\"">>))

emit_component(c, out, level) ==
    IF c.children # <<>>
    THEN LET func_name == component_to_func_name(c.name)
             comment == newline(push(push(push(indent(out, level), <<"#", " ", "<", "{">>), c.name), <<"}", ">">>))
             def == newline(push(push(push(indent(comment, level), <<"d", "e", "f", " ">>), func_name), <<"(", ")", ":">>))
             inner == emit_nodes(c.children, def, level + 1)
             call == push(push(push(push(push(indent(inner, level), <<"y", "i", "e", "l", "d", " ", "f", "r", "o", "m", " ">>), c.name),
                                     <<"(">>), func_name), <<"(", ")">>)
             args[a \in 0..Len(c.attributes)] ==
                 IF a = 0 THEN call
                 ELSE ComponentArgument(c.attributes[a], push(args[a - 1], <<",", " ">>))
             called == newline(push(args[Len(c.attributes)], <<")">>))
         IN  newline(push(push(push(indent(called, level), <<"#", " ", "<", "/", "{">>), c.name), <<"}", ">">>))
    ELSE LET call == push(push(push(indent(out, level), <<"y", "i", "e", "l", "d", " ", "f", "r", "o", "m", " ">>), c.name), <<"(">>)
             args[a \in 0..Len(c.attributes)] ==
                 IF a = 0 THEN call
                 ELSE ComponentArgument(c.attributes[a],
                                        IF a > 1 THEN push(args[a - 1], <<",", " ">>) ELSE args[a - 1])
         IN  newline(push(args[Len(c.attributes)], <<")">>))

emit_if(if_node, out, level) ==
    LET header == emit_header(out, level, <<"i", "f", " ">>, if_node.condition, if_node.condition_span)
        then_branch == emit_body(if_node.then_branch, header, level + 1)
        elifs[e \in 0..Len(if_node.elif_branches)] ==
            IF e = 0 THEN then_branch
            ELSE LET branch == if_node.elif_branches[e]
                 IN  emit_body(branch.body,
                               emit_header(elifs[e - 1], level, <<"e", "l", "i", "f", " ">>, branch.condition,
                                           branch.condition_span),
                               level + 1)
        after == elifs[Len(if_node.elif_branches)]
    IN  IF IsSome(if_node.else_branch)
        THEN emit_body(if_node.else_branch[1],
                       newline(push(indent(after, level), <<"e", "l", "s", "e", ":">>)), level + 1)
        ELSE after

emit_for(for_node, out, level) ==
    emit_body(for_node.body,
              emit_header(out, level,
                          (IF for_node.is_async THEN <<"a", "s", "y", "n", "c", " ", "f", "o", "r", " ">> ELSE <<"f", "o", "r", " ">>)
                              \o for_node.binding \o <<" ", "i", "n", " ">>,
                          for_node.iterable, for_node.iterable_span),
              level + 1)

emit_match(match_node, out, level) ==
    LET header == emit_header(out, level, <<"m", "a", "t", "c", "h", " ">>, match_node.expr, match_node.expr_span)
        arms[c \in 0..Len(match_node.cases)] ==
            IF c = 0 THEN header
            ELSE LET case == match_node.cases[c]
                 IN  emit_body(case.body,
                               emit_header(arms[c - 1], level + 1, <<"c", "a", "s", "e", " ">>, case.pattern,
                                           case.pattern_span),
                               level + 2)
    IN  arms[Len(match_node.cases)]

emit_while(while_node, out, level) ==
    emit_body(while_node.body,
              emit_header(out, level, <<"w", "h", "i", "l", "e", " ">>, while_node.condition,
                          while_node.condition_span),
              level + 1)

emit_with(with_node, out, level) ==
    emit_body(with_node.body,
              emit_header(out, level,
                          IF with_node.is_async THEN <<"a", "s", "y", "n", "c", " ", "w", "i", "t", "h", " ">> ELSE <<"w", "i", "t", "h", " ">>,
                          with_node.items, with_node.items_span),
              level + 1)

emit_try(try_node, out, level) ==
    LET body == emit_body(try_node.body, newline(push(indent(out, level), <<"t", "r", "y", ":">>)), level + 1)
        excepts[e \in 0..Len(try_node.except_clauses)] ==
            IF e = 0 THEN body
            ELSE LET except == try_node.except_clauses[e]
                     keyword == push(indent(excepts[e - 1], level), <<"e", "x", "c", "e", "p", "t">>)
                     named == IF IsSome(except.exception)
                              THEN push(push(keyword, <<" ">>), except.exception[1])
                              ELSE keyword
                 IN  emit_body(except.body, newline(push(named, <<":">>)), level + 1)
        handled == excepts[Len(try_node.except_clauses)]
        otherwise == IF IsSome(try_node.else_clause)
                     THEN emit_body(try_node.else_clause[1],
                                    newline(push(indent(handled, level), <<"e", "l", "s", "e", ":">>)), level + 1)
                     ELSE handled
    IN  IF IsSome(try_node.finally_clause)
        THEN emit_body(try_node.finally_clause[1],
                       newline(push(indent(otherwise, level), <<"f", "i", "n", "a", "l", "l", "y", ":">>)), level + 1)
        ELSE otherwise

emit_definition(def, out, level) ==
    emit_body(def.body, newline(push(indent(out, level), def.signature)), level + 1)

emit_node(node, out, level) ==
    CASE node.kind = "Text" -> emit_text(node, out, level)
      [] node.kind = "Expression" -> emit_expression(node, out, level)
      [] node.kind = "Element" -> emit_element(node, out, level)
      [] node.kind = "Component" -> emit_component(node, out, level)
      [] node.kind = "Fragment" -> emit_nodes(node.children, out, level)
      [] node.kind = "Slot" -> emit_slot(node, out, level)
      [] node.kind = "If" -> emit_if(node, out, level)
      [] node.kind = "For" -> emit_for(node, out, level)
      [] node.kind = "Match" -> emit_match(node, out, level)
      [] node.kind = "While" -> emit_while(node, out, level)
      [] node.kind = "With" -> emit_with(node, out, level)
      [] node.kind = "Try" -> emit_try(node, out, level)
      [] node.kind = "Statement" -> emit_statement(node, out, level)
      [] node.kind = "Definition" -> emit_definition(node, out, level)
      [] node.kind = "Import" -> emit_import(node, out, level)
      [] node.kind = "Parameter" -> out
      [] node.kind = "Decorator" -> emit_decorator(node, out, level)

(***************************************************************************)
(* The transform passes (src/transform): the metadata generate() reads     *)
(***************************************************************************)
\* HelperDetectionPlugin::enter, for the helpers generate() looks up
HelperDetectionPlugin(nodes) ==
    {<<"e", "s", "c", "a", "p", "e">> : n \in {m \in NodesIn(nodes) : m.kind = "Expression" /\ m.escape}}
    \cup {<<"s", "a", "f", "e">> : n \in {m \in NodesIn(nodes) : m.kind = "Expression" /\ Contains(m.expr, <<"s", "a", "f", "e", "(">>)}}

\* (mutation of AsyncDetectionPlugin: the async flag of a loop is not read)
AsyncDetectionIgnoresFlag(nodes) ==
    \E n \in NodesIn(nodes) :
        CASE n.kind = "Expression" -> Contains(n.expr, <<"a", "w", "a", "i", "t", " ">>)
          [] n.kind = "Statement" -> Contains(n.stmt, <<"a", "w", "a", "i", "t", " ">>)
          [] n.kind = "For" -> Contains(n.iterable, <<"a", "w", "a", "i", "t", " ">>)
          [] n.kind = "With" -> n.is_async \/ Contains(n.items, <<"a", "w", "a", "i", "t", " ">>)
          [] n.kind = "If" -> Contains(n.condition, <<"a", "w", "a", "i", "t", " ">>)
          [] OTHER -> FALSE

\* AsyncDetectionPlugin::enter
AsyncDetectionPlugin(nodes) ==
    \E n \in NodesIn(nodes) :
        CASE n.kind = "Expression" -> Contains(n.expr, <<"a", "w", "a", "i", "t", " ">>)
          [] n.kind = "Statement" -> Contains(n.stmt, <<"a", "w", "a", "i", "t", " ">>)
          [] n.kind = "For" -> n.is_async \/ Contains(n.iterable, <<"a", "w", "a", "i", "t", " ">>)
          [] n.kind = "With" -> n.is_async \/ Contains(n.items, <<"a", "w", "a", "i", "t", " ">>)
          [] n.kind = "If" -> Contains(n.condition, <<"a", "w", "a", "i", "t", " ">>)
          [] OTHER -> FALSE

\* SlotDetectionPlugin::enter: the default slot is the empty name
SlotDetectionPlugin(nodes) ==
    {IF IsSome(n.name) THEN n.name[1] ELSE <<>> : n \in {m \in NodesIn(nodes) : m.kind = "Slot"}}
    \cup {<<>> : n \in {m \in NodesIn(nodes) : m.kind = "Expression" /\ m.expr = <<".", ".", ".">>}}

\* Transformer::transform with the standard plugins
TransformMetadata(nodes) ==
    [helpers_used |-> HelperDetectionPlugin(nodes), is_async |-> AsyncDetectionPlugin(nodes),
     slots_used |-> SlotDetectionPlugin(nodes)]

(***************************************************************************)
(* compute_injections (output.rs)                                          *)
(***************************************************************************)
Injection(type, start, end, prefix, suffix) ==
    [injection_type |-> type, start |-> start, end |-> end,
     prefix |-> prefix, suffix |-> suffix]

Min(a, b) == IF a < b THEN a ELSE b

substring_utf16(s, start, end) ==
    IF start >= end THEN <<>>
    ELSE LET utf16_units == encode_utf16(s)
             e == Min(end, Len(utf16_units))
             b == Min(start, e)
         IN  from_utf16_lossy(SubSeq(utf16_units, b + 1, e))

substring_utf16_to_end(s, start) ==
    LET utf16_units == encode_utf16(s)
    IN  IF start >= Len(utf16_units) THEN <<>>
        ELSE from_utf16_lossy(SubSeq(utf16_units, start + 1, Len(utf16_units)))

\* slice::sort_by_key(|r| r.source_start): a stable sort
RECURSIVE sort_by_source_start(_)
sort_by_source_start(rs) ==
    IF rs = <<>> THEN <<>>
    ELSE LET rest == sort_by_source_start(SubSeq(rs, 1, Len(rs) - 1))
             last == rs[Len(rs)]
             before == SelectSeq(rest, LAMBDA r : r.source_start <= last.source_start)
             after == SelectSeq(rest, LAMBDA r : r.source_start > last.source_start)
         IN  before \o <<last>> \o after

\* the body of the loop over the range types
InjectionsOfType(code, ranges, range_type) ==
    LET type_ranges == sort_by_source_start(
                           SelectSeq(ranges, LAMBDA r : r.range_type = range_type
                                                         /\ r.needs_injection))
    IN  [i \in 1..Len(type_ranges) |->
            Injection(IF range_type = "Python" THEN <<"p", "y", "t", "h", "o", "n">> ELSE <<"h", "t", "m", "l">>,
                      type_ranges[i].source_start, type_ranges[i].source_end,
                      substring_utf16(code,
                                      IF i = 1 THEN 0 ELSE type_ranges[i - 1].compiled_end,
                                      type_ranges[i].compiled_start),
                      IF i = Len(type_ranges)
                      THEN substring_utf16_to_end(code, type_ranges[i].compiled_end)
                      ELSE <<>>)]

compute_injections(code, ranges) ==
    InjectionsOfType(code, ranges, "Python") \o InjectionsOfType(code, ranges, "Html")

(***************************************************************************)
(* PythonGenerator::generate, one action per part of the function          *)
(***************************************************************************)
char_to_uppercase(ch) ==
    IF \E i \in 1..Len(LowerCase) : LowerCase[i] = ch
    THEN UpperCase[CHOOSE i \in 1..Len(LowerCase) : LowerCase[i] = ch]
    ELSE ch

\* fn to_pascal_case: the words between underscores, each with its first letter raised
to_pascal_case(s) ==
    LET loop[i \in 0..Len(s)] ==
            IF i = 0 THEN <<>>
            ELSE IF s[i] = "_" THEN loop[i - 1]
            ELSE IF i = 1 \/ s[i - 1] = "_" THEN loop[i - 1] \o <<char_to_uppercase(s[i])>>
            ELSE loop[i - 1] \o <<s[i]>>
    IN  loop[Len(s)]

\* the order of str on the characters slot names are made of
CharOrder == <<"_", "0", "1", "2", "3", "4", "5", "6", "7", "8", "9">> \o UpperCase \o LowerCase
CharRank(ch) == CHOOSE i \in 1..Len(CharOrder) : CharOrder[i] = ch
RECURSIVE StrLess(_, _)
StrLess(a, b) ==
    IF a = <<>> THEN b # <<>>
    ELSE IF b = <<>> THEN FALSE
    ELSE IF Head(a) = Head(b) THEN StrLess(Tail(a), Tail(b))
    ELSE CharRank(Head(a)) < CharRank(Head(b))

\* Vec::sort on a set of names
RECURSIVE Sorted(_)
Sorted(names) ==
    IF names = {} THEN <<>>
    ELSE LET least == CHOOSE a \in names : \A b \in names \ {a} : StrLess(a, b)
         IN  <<least>> \o Sorted(names \ {least})

\* ast.nodes of one kind, in order
OfKind(nodes, kind) == SelectSeq(nodes, LAMBDA n : n.kind = kind)

\* one parameter of the signature and its range
emit_parameter(param, out, first) ==
    LET separated == IF first THEN out ELSE push(out, <<",", " ">>)
        param_start == output_position(separated)
        named == push(separated, param.name)
        typed == IF IsSome(param.type_hint)
                 THEN push(push(named, <<":", " ">>), param.type_hint[1])
                 ELSE named
        defaulted == IF IsSome(param.default)
                     THEN push(push(typed, <<" ", "=", " ">>), param.default[1])
                     ELSE typed
        param_end == output_position(defaulted)
    IN  add_range(defaulted,
                  Range(param.span.start, param.span.end, param_start, param_end, TRUE))

\* the user's imports and decorators, then the signature of the function
Signature(nodes, metadata, opts) ==
    LET parameters == OfKind(nodes, "Parameter")
        imports == OfKind(nodes, "Import")
        decorators == OfKind(nodes, "Decorator")
        imported[i \in 0..Len(imports)] ==
            IF i = 0 THEN NewOutput ELSE newline(push(imported[i - 1], imports[i].stmt))
        decorated[d \in 0..Len(decorators)] ==
            IF d = 0 THEN imported[Len(imports)]
            ELSE newline(push(decorated[d - 1], decorators[d].decorator))
        func_name == IF IsSome(opts.function_name)
                     THEN to_pascal_case(opts.function_name[1])
                     ELSE <<"R", "e", "n", "d", "e", "r">>
        named == push(push(push(decorated[Len(decorators)],
                                IF metadata.is_async THEN <<"a", "s", "y", "n", "c", " ", "d", "e", "f", " ">> ELSE <<"d", "e", "f", " ">>),
                           func_name), <<"(">>)
        has_default_slot == <<>> \in metadata.slots_used
        has_named_slots == \E s \in metadata.slots_used : s # <<>>
        content == IF has_default_slot
                   THEN push(named, <<"_", "c", "o", "n", "t", "e", "n", "t", ":", " ", "I", "t", "e", "r", "a", "b", "l", "e", "[", "s", "t", "r", "]", " ", "|", " ", "N", "o", "n", "e", " ", "=", " ", "N", "o", "n", "e">>)
                   ELSE named
        params[p \in 0..Len(parameters)] ==
            IF p = 0 THEN push(content, IF has_default_slot THEN <<",", " ", "*", ",", " ">> ELSE <<"*", ",", " ">>)
            ELSE emit_parameter(parameters[p], params[p - 1], p = 1)
        with_params == IF parameters # <<>> THEN params[Len(parameters)] ELSE content
        sorted_slots == Sorted({s \in metadata.slots_used : s # <<>>})
        slots[s \in 0..Len(sorted_slots)] ==
            IF s = 0 THEN with_params
            ELSE push(push(push(IF has_default_slot \/ parameters # <<>>
                                THEN push(slots[s - 1], <<",", " ">>) ELSE slots[s - 1],
                                <<"_">>), sorted_slots[s]),
                      <<"_", "c", "o", "n", "t", "e", "n", "t", ":", " ", "I", "t", "e", "r", "a", "b", "l", "e", "[", "s", "t", "r", "]", " ", "|", " ", "N", "o", "n", "e", " ", "=", " ", "N", "o", "n", "e">>)
    IN  newline(push(slots[Len(sorted_slots)], <<")", ":">>))

\* the import block put before the function definition
ImportLines(code, metadata) ==
    LET needs_iterable == metadata.slots_used # {}
        hyper_imports ==
            <<"c", "o", "m", "p", "o", "n", "e", "n", "t">>
            \o (IF Contains(code, <<"U+2039">>) THEN <<",", " ", "r", "e", "p", "l", "a", "c", "e", "_", "m", "a", "r", "k", "e", "r", "s">> ELSE <<>>)
            \o (IF <<"e", "s", "c", "a", "p", "e">> \in metadata.helpers_used \/ Contains(code, <<"e", "s", "c", "a", "p", "e", "(">>)
                THEN <<",", " ", "e", "s", "c", "a", "p", "e">> ELSE <<>>)
            \o (IF <<"s", "a", "f", "e">> \in metadata.helpers_used THEN <<",", " ", "s", "a", "f", "e">> ELSE <<>>)
    IN  (IF needs_iterable THEN <<"f", "r", "o", "m", " ", "c", "o", "l", "l", "e", "c", "t", "i", "o", "n", "s", ".", "a", "b", "c", " ", "i", "m", "p", "o", "r", "t", " ", "I", "t", "e", "r", "a", "b", "l", "e", "\n">> ELSE <<>>)
        \o <<"f", "r", "o", "m", " ", "h", "y", "p", "e", "r", " ", "i", "m", "p", "o", "r", "t", " ">> \o hyper_imports \o <<"\n">> \o <<"\n", "\n">> \o <<"@", "c", "o", "m", "p", "o", "n", "e", "n", "t", "\n">>

\* String::insert_str at a character index (0-based)
insert_str(s, idx, text) == SubSeq(s, 1, idx) \o text \o SubSeq(s, idx + 1, Len(s))

\* where the import block goes: code.find("async def ").or_else(|| code.find("def "))
DefPos(code) ==
    IF Find(code, <<"a", "s", "y", "n", "c", " ", "d", "e", "f", " ">>) # 0 THEN Find(code, <<"a", "s", "y", "n", "c", " ", "d", "e", "f", " ">>) - 1
    ELSE IF Find(code, <<"d", "e", "f", " ">>) # 0 THEN Find(code, <<"d", "e", "f", " ">>) - 1
    ELSE 0

\* (mutation of AdjustRange: only compiled_start is moved)
AdjustRangeStartOnly(r, import_offset) ==
    [r EXCEPT !.compiled_start = @ + import_offset]
\* the range moved by the length of the import block
AdjustRange(r, import_offset) ==
    [r EXCEPT !.compiled_start = @ + import_offset, !.compiled_end = @ + import_offset]

\* `for node in &ast.nodes`: what is not a parameter, an import or a decorator
BodyNodes(nodes) ==
    SelectSeq(nodes, LAMBDA n : n.kind \notin {"Parameter", "Import", "Decorator"})

GenerateSignature ==
    /\ gen_pc = "signature"
    /\ output' = Signature(ast.nodes, ast.metadata, options)
    /\ gen_pc' = "body"
    /\ UNCHANGED <<tokenizer, tokens, parser, transformer, daemon, transpiler, ast, options, generated>>

GenerateBody ==
    /\ gen_pc = "body"
    /\ output' = emit_nodes(BodyNodes(ast.nodes), output, 1)
    /\ gen_pc' = "imports"
    /\ UNCHANGED <<tokenizer, tokens, parser, transformer, daemon, transpiler, ast, options, generated>>

GenerateImports ==
    /\ gen_pc = "imports"
    /\ LET finished == finish(output)
           import_lines == ImportLines(finished.code, ast.metadata)
       IN  generated' = [code |-> insert_str(finished.code, DefPos(finished.code), import_lines),
                         mappings |-> finished.mappings,
                         tracked_ranges |-> finished.ranges,
                         import_offset |-> ByteLen(import_lines)]
    /\ gen_pc' = "ranges"
    /\ UNCHANGED <<tokenizer, tokens, parser, transformer, daemon, transpiler, ast, options, output>>

GenerateRanges ==
    /\ gen_pc = "ranges"
    /\ LET adjusted_ranges == [r \in 1..Len(generated.tracked_ranges) |->
                                  AdjustRange(generated.tracked_ranges[r],
                                              generated.import_offset)]
       IN  generated' = IF options.include_ranges
                        THEN [code |-> generated.code, mappings |-> generated.mappings,
                              ranges |-> adjusted_ranges,
                              injections |-> compute_injections(generated.code, adjusted_ranges)]
                        ELSE [code |-> generated.code, mappings |-> generated.mappings,
                              ranges |-> <<>>, injections |-> <<>>]
    /\ gen_pc' = "done"
    /\ UNCHANGED <<tokenizer, tokens, parser, transformer, daemon, transpiler, ast, options, output>>

(***************************************************************************)
(* Templates for the generator.  A template is a list of items, each a     *)
(* line or a block of lines; an item is laid out as the text the tokenizer *)
(* reads and as the nodes TreeBuilder returns for that text, with the      *)
(* spans the tokenizer records (byte offsets into the source).             *)
(***************************************************************************)
\* pieces of a content line
TextPiece(text) == [d |-> "text", text |-> text]
ExprPiece(code) == [d |-> "expr", code |-> code]
ElementPiece(tag, attrs, children) ==
    [d |-> "element", tag |-> tag, attrs |-> attrs, children |-> children]
\* lines and blocks
ContentLine(pieces) == [d |-> "line", pieces |-> pieces]
CodeLine(code) == [d |-> "code", code |-> code]
SeparatorLine == [d |-> "separator"]
ElementBlock(tag, body) == [d |-> "element_block", tag |-> tag, body |-> body]
ClauseLines(head, body) == [head |-> head, body |-> body]
IfBlock(head, body, elifs, else_body) ==
    [d |-> "if", head |-> head, body |-> body, elifs |-> elifs, else_body |-> else_body]
LoopBlock(head, body) == [d |-> "loop", head |-> head, body |-> body]
MatchBlock(head, cases) == [d |-> "match", head |-> head, cases |-> cases]

\* the text of an attribute as written in a tag
AttributeText(attr) ==
    CASE attr.kind = "Static" -> attr.name \o <<"=", "\"">> \o attr.value \o <<"\"">>
      [] attr.kind = "Dynamic" -> attr.name \o <<"=", "{">> \o attr.expr \o <<"}">>
      [] attr.kind = "Boolean" -> attr.name
      [] attr.kind = "Shorthand" -> <<"{">> \o attr.name \o <<"}">>
      [] attr.kind = "Spread" -> <<"{", "*", "*">> \o attr.expr \o <<"}">>

\* Tokenizer::parse_attribute and TreeBuilder::convert_attributes: the attribute
\* written at byte offset `at`, with the span of its value
AttributeAt(attr, at) ==
    CASE attr.kind = "Dynamic" ->
            Dynamic(attr.name, attr.expr,
                    ByteSpan(at + ByteLen(attr.name) + 1, at + ByteLen(AttributeText(attr))))
      [] attr.kind = "Shorthand" ->
            Shorthand(attr.name, ByteSpan(at, at + ByteLen(AttributeText(attr)) - 1))
      [] attr.kind = "Spread" ->
            Spread(attr.expr, ByteSpan(at, at + ByteLen(AttributeText(attr)) - 1))
      [] OTHER -> attr

\* the attributes of a tag, each after one space, the first after `<tag`
AttributesAt(attrs, at) ==
    LET loop[a \in 0..Len(attrs)] ==
            IF a = 0 THEN [source |-> <<>>, attributes |-> <<>>]
            ELSE LET start == at + ByteLen(loop[a - 1].source) + 1
                 IN  [source |-> loop[a - 1].source \o <<" ">> \o AttributeText(attrs[a]),
                      attributes |-> Append(loop[a - 1].attributes,
                                            AttributeAt(attrs[a], start))]
    IN  loop[Len(attrs)]

\* Tokenizer::tokenize_control_start: the keyword and the rest of a control line
control_start(line) ==
    LET effective == strip_trailing_comment(Trim(line))
        breaks == {i \in 1..Len(effective) : IsWhitespace(effective[i]) \/ effective[i] = ":"}
        idx == CHOOSE i \in breaks : \A j \in breaks : i <= j
    IN  IF StartsWith(effective, <<"a", "s", "y", "n", "c", " ", "f", "o", "r", " ">>)
        THEN [keyword |-> <<"a", "s", "y", "n", "c", " ", "f", "o", "r">>, rest |-> TrimStart(From(effective, 11))]
        ELSE IF StartsWith(effective, <<"a", "s", "y", "n", "c", " ", "w", "i", "t", "h", " ">>)
        THEN [keyword |-> <<"a", "s", "y", "n", "c", " ", "w", "i", "t", "h">>, rest |-> TrimStart(From(effective, 12))]
        ELSE IF StartsWith(effective, <<"a", "s", "y", "n", "c", " ", "d", "e", "f", " ">>)
        THEN [keyword |-> <<"a", "s", "y", "n", "c", " ", "d", "e", "f">>, rest |-> TrimStart(From(effective, 11))]
        ELSE IF breaks # {}
        THEN [keyword |-> SubSeq(effective, 1, idx - 1), rest |-> TrimStart(From(effective, idx))]
        ELSE [keyword |-> effective, rest |-> <<>>]

\* Tokenizer::tokenize_control_continuation: the keyword and the optional rest
control_continuation(line) ==
    LET trimmed == Trim(line)
        breaks == {i \in 1..Len(trimmed) : IsWhitespace(trimmed[i]) \/ trimmed[i] = ":"}
        idx == CHOOSE i \in breaks : \A j \in breaks : i <= j
        r == TrimStart(From(trimmed, idx))
    IN  IF breaks # {}
        THEN [keyword |-> SubSeq(trimmed, 1, idx - 1),
              rest |-> IF r = <<>> \/ r = <<":">> THEN None ELSE Some(r)]
        ELSE [keyword |-> trimmed, rest |-> None]

\* rest_span of a control token: where `rest` lies in the source, for a line that
\* starts at byte offset `at` and ends with `rest`
RestSpan(line, rest, at) ==
    ByteSpan(at + ByteLen(line) - ByteLen(rest), at + ByteLen(line))

\* str::splitn(2, sep): the parts before and after the first sep, or the whole
splitn2(s, sep) ==
    IF Contains(s, sep)
    THEN <<SubSeq(s, 1, Find(s, sep) - 1), From(s, Find(s, sep) + Len(sep))>>
    ELSE <<s>>

\* TreeBuilder::parse_parameter
ParameterOf(code, span) ==
    LET parts == splitn2(code, <<":">>)
        rest == Trim(parts[2])
        halves == splitn2(rest, <<"=">>)
    IN  IF Len(parts) # 2 THEN Statement(code)
        ELSE IF Contains(rest, <<"=">>)
        THEN Parameter(Trim(parts[1]), Some(Trim(halves[1])), Some(Trim(halves[2])), span)
        ELSE Parameter(Trim(parts[1]), Some(rest), None, span)

\* the PythonStatement arm of parse_node for a line of code
CodeNode(code, span, header) ==
    IF header /\ is_parameter_declaration(code) THEN ParameterOf(code, span)
    ELSE Statement(code)

\* TreeBuilder::parse_for: the binding, the iterable and where the iterable lies
ForOf(rest, rest_span, body, is_async) ==
    LET parts == splitn2(rest, <<" ", "i", "n", " ">>)
        binding_and_in_len == ByteLen(parts[1]) + 4
    IN  For(Trim(parts[1]), Trim(parts[2]),
            ByteSpan(rest_span.start + binding_and_in_len, rest_span.end), body, is_async)

\* TreeBuilder::parse_function: the signature is the keyword, the rest without
\* its colons, and a colon
FunctionOf(keyword, rest, body) ==
    Definition(keyword \o <<" ">> \o Trim(trim_end_colons(rest)) \o <<":">>, body)

\* TreeBuilder::parse_control_flow for the loops and the functions
LoopOf(head, at, body) ==
    LET start == control_start(head)
        rest_span == RestSpan(head, start.rest, at)
    IN  CASE start.keyword = <<"f", "o", "r">> -> ForOf(start.rest, rest_span, body, FALSE)
          [] start.keyword = <<"a", "s", "y", "n", "c", " ", "f", "o", "r">> -> ForOf(start.rest, rest_span, body, TRUE)
          [] start.keyword = <<"w", "h", "i", "l", "e">> -> While(start.rest, rest_span, body)
          [] start.keyword = <<"w", "i", "t", "h">> -> With(start.rest, rest_span, body, FALSE)
          [] start.keyword = <<"a", "s", "y", "n", "c", " ", "w", "i", "t", "h">> -> With(start.rest, rest_span, body, TRUE)
          [] start.keyword \in {<<"d", "e", "f">>, <<"a", "s", "y", "n", "c", " ", "d", "e", "f">>} -> FunctionOf(start.keyword, start.rest, body)

\* the span a clause records: rest_span.unwrap_or(span)
ClauseSpan(head, at) ==
    IF IsSome(control_continuation(head).rest)
    THEN RestSpan(head, control_continuation(head).rest[1], at)
    ELSE ByteSpan(at, at + ByteLen(head))

\* rest.clone().unwrap_or_default()
ClauseRest(head) ==
    IF IsSome(control_continuation(head).rest) THEN control_continuation(head).rest[1]
    ELSE <<>>

RECURSIVE Layout(_, _, _)
RECURSIVE LayoutItem(_, _, _)

\* the clauses of a block, one after the other from byte offset `at`
LayoutClauses(clauses, at, header) ==
    LET loop[c \in 0..Len(clauses)] ==
            IF c = 0 THEN [source |-> <<>>, starts |-> <<>>, bodies |-> <<>>]
            ELSE LET start == at + ByteLen(loop[c - 1].source)
                     head == clauses[c].head \o <<"\n">>
                     body == Layout(clauses[c].body, start + ByteLen(head), header)
                 IN  [source |-> loop[c - 1].source \o head \o body.source,
                      starts |-> Append(loop[c - 1].starts, start),
                      bodies |-> Append(loop[c - 1].bodies, body.nodes)]
    IN  loop[Len(clauses)]

LayoutItem(item, at, header) ==
    CASE item.d = "text" ->
            [source |-> item.text, nodes |-> <<Text(item.text)>>, header |-> header]
      [] item.d = "expr" ->
            [source |-> <<"{">> \o item.code \o <<"}">>,
             nodes |-> <<Expression(item.code, ByteSpan(at, at + ByteLen(item.code) + 2))>>,
             header |-> header]
      [] item.d = "element" ->
            LET attrs == AttributesAt(item.attrs, at + 1 + ByteLen(item.tag))
                open == <<"<">> \o item.tag \o attrs.source \o <<">">>
                children == Layout(item.children, at + ByteLen(open), header)
            IN  [source |-> open \o children.source \o <<"<", "/">> \o item.tag \o <<">">>,
                 nodes |-> <<Element(item.tag, attrs.attributes, children.nodes, FALSE)>>,
                 header |-> header]
      [] item.d = "line" ->
            LET pieces == Layout(item.pieces, at, header)
            IN  [source |-> pieces.source \o <<"\n">>, nodes |-> pieces.nodes, header |-> header]
      [] item.d = "code" ->
            [source |-> item.code \o <<"\n">>,
             nodes |-> <<CodeNode(item.code, ByteSpan(at, at + ByteLen(item.code)), header)>>,
             header |-> header]
      [] item.d = "separator" ->
            [source |-> <<"-", "-", "-", "\n">>, nodes |-> <<>>, header |-> FALSE]
      [] item.d = "element_block" ->
            LET open == <<"<">> \o item.tag \o <<">", "\n">>
                body == Layout(item.body, at + ByteLen(open), header)
            IN  [source |-> open \o body.source \o <<"<", "/">> \o item.tag \o <<">", "\n">>,
                 nodes |-> <<Element(item.tag, <<>>, body.nodes, FALSE)>>,
                 header |-> header]
      [] item.d = "if" ->
            LET head == item.head \o <<"\n">>
                body == Layout(item.body, at + ByteLen(head), header)
                elifs == LayoutClauses(item.elifs, at + ByteLen(head \o body.source), header)
                before_else == head \o body.source \o elifs.source
                else_body == IF IsSome(item.else_body)
                             THEN Layout(item.else_body[1],
                                         at + ByteLen(before_else \o <<"e", "l", "s", "e", ":", "\n">>), header)
                             ELSE [source |-> <<>>, nodes |-> <<>>]
                start == control_start(item.head)
            IN  [source |-> before_else
                            \o (IF IsSome(item.else_body) THEN <<"e", "l", "s", "e", ":", "\n">> ELSE <<>>)
                            \o else_body.source \o <<"e", "n", "d", "\n">>,
                 nodes |-> <<If(start.rest, RestSpan(item.head, start.rest, at), body.nodes,
                                [e \in 1..Len(item.elifs) |->
                                    Elif(ClauseRest(item.elifs[e].head),
                                         ClauseSpan(item.elifs[e].head, elifs.starts[e]),
                                         elifs.bodies[e])],
                                IF IsSome(item.else_body) THEN Some(else_body.nodes)
                                ELSE None)>>,
                 header |-> header]
      [] item.d = "loop" ->
            LET head == item.head \o <<"\n">>
                body == Layout(item.body, at + ByteLen(head), header)
            IN  [source |-> head \o body.source \o <<"e", "n", "d", "\n">>,
                 nodes |-> <<LoopOf(item.head, at, body.nodes)>>,
                 header |-> header]
      [] item.d = "match" ->
            LET head == item.head \o <<"\n">>
                cases == LayoutClauses(item.cases, at + ByteLen(head), header)
                start == control_start(item.head)
            IN  [source |-> head \o cases.source \o <<"e", "n", "d", "\n">>,
                 nodes |-> <<Match(start.rest, RestSpan(item.head, start.rest, at),
                                   [c \in 1..Len(item.cases) |->
                                       Case(ClauseRest(item.cases[c].head),
                                            ClauseSpan(item.cases[c].head, cases.starts[c]),
                                            cases.bodies[c])])>>,
                 header |-> header]

\* the items one after the other from byte offset `at`
Layout(items, at, header) ==
    IF items = <<>> THEN [source |-> <<>>, nodes |-> <<>>, header |-> header]
    ELSE LET before == Layout(SubSeq(items, 1, Len(items) - 1), at, header)
             last == LayoutItem(items[Len(items)], at + ByteLen(before.source),
                                before.header)
         IN  [source |-> before.source \o last.source,
              nodes |-> before.nodes \o last.nodes,
              header |-> last.header]

(***************************************************************************)
(* Compilations of small templates                                         *)
(***************************************************************************)
MaxItems == 2

ExprLine == ContentLine(<<ExprPiece(<<"x">>)>>)
EmptyWhile == LoopBlock(<<"w", "h", "i", "l", "e", " ", "a", ":">>, <<>>)

\* the lines and blocks the templates are made of
Items ==
    {ExprLine,
     ContentLine(<<ElementPiece(<<"p">>, <<>>, <<TextPiece(<<"U+00E9">>), ExprPiece(<<" ", "y", " ">>)>>)>>),
     ContentLine(<<ElementPiece(<<"a">>, <<[kind |-> "Dynamic", name |-> <<"b">>, expr |-> <<" ", "x", " ">>]>>,
                                <<TextPiece(<<"t">>)>>)>>),
     ContentLine(<<ElementPiece(<<"i">>, <<[kind |-> "Shorthand", name |-> <<"b">>],
                                       [kind |-> "Spread", expr |-> <<"c">>]>>,
                                <<TextPiece(<<"t">>)>>)>>),
     ContentLine(<<ElementPiece(<<"u">>, <<[kind |-> "Dynamic", name |-> <<"c", "l", "a", "s", "s">>, expr |-> <<"c">>],
                                       [kind |-> "Boolean", name |-> <<"h", "i", "d", "d", "e", "n">>],
                                       [kind |-> "Static", name |-> <<"d">>, value |-> <<"e">>]>>,
                                <<>>)>>),
     CodeLine(<<"n", ":", " ", "i", "n", "t">>),
     CodeLine(<<"v", " ", "=", " ", "1">>),
     SeparatorLine,
     IfBlock(<<"i", "f", " ", "a", ":">>, <<ExprLine>>, <<>>, None),
     IfBlock(<<"i", "f", " ", "a", ":">>, <<CodeLine(<<"n", ":", " ", "i", "n", "t">>)>>, <<>>, None),
     IfBlock(<<"i", "f", " ", "a", ":">>, <<>>, <<ClauseLines(<<"e", "l", "i", "f", " ", "b", ":">>, <<>>)>>, Some(<<>>)),
     LoopBlock(<<"f", "o", "r", " ", "x", " ", "i", "n", " ", " ", "i", "t", "e", "m", "s", ":">>, <<ExprLine>>),
     EmptyWhile,
     MatchBlock(<<"m", "a", "t", "c", "h", " ", "x", ":">>, <<ClauseLines(<<"c", "a", "s", "e", " ", "1", ":">>, <<ExprLine>>)>>),
     MatchBlock(<<"m", "a", "t", "c", "h", " ", "x", ":">>, <<>>),
     ElementBlock(<<"d", "i", "v">>, <<ContentLine(<<ExprPiece(<<"x">>), TextPiece(<<"!">>)>>), EmptyWhile>>)}

Compilations == {Layout(items, 0, TRUE) : items \in SeqsUpTo(Items, MaxItems)}

\* GenerateOptions: function_name and include_ranges
Options ==
    {[function_name |-> None, include_ranges |-> TRUE],
     [function_name |-> Some(<<"m", "y", "_", "p", "a", "g", "e">>), include_ranges |-> TRUE],
     [function_name |-> None, include_ranges |-> FALSE]}

\* a template is tokenized, parsed and transformed, and generate() is called
NewCompilation ==
    /\ gen_pc = "idle"
    /\ \E compilation \in Compilations :
          /\ source' = compilation.source
          /\ ast' = [nodes |-> compilation.nodes,
                     metadata |-> TransformMetadata(compilation.nodes)]
    /\ options' \in Options
    /\ output' = NewOutput
    /\ gen_pc' = "signature"
    /\ UNCHANGED <<position, in_multiline_string, pc, locals, tokens, parser, generated, transformer, daemon, transpiler>>

InitGenerate ==
    /\ GeneratorIdle /\ TransformerIdle /\ DaemonIdle /\ TranspilerIdle
    /\ TokenizerIdle
    /\ tokens = <<>>
    /\ pos = 1
    /\ in_header = TRUE
    /\ element_stack = <<>>
    /\ stack = <<>>
    /\ result = NotStarted

NextGenerate ==
    \/ NewCompilation
    \/ GenerateSignature
    \/ GenerateBody
    \/ GenerateImports
    \/ GenerateRanges

SpecGenerate == InitGenerate /\ [][NextGenerate]_vars

\* generate() has returned
Generated == gen_pc = "done"

(***************************************************************************)
(* Properties of the generated code                                        *)
(***************************************************************************)
\* the n-th smallest member of a set of numbers
Nth(S, n) == CHOOSE e \in S : Cardinality({f \in S : f < e}) = n - 1

\* str::lines
LinesOf(code) ==
    LET ends == {i \in 1..Len(code) : code[i] = "\n"}
                \cup (IF code # <<>> /\ code[Len(code)] # "\n" THEN {Len(code) + 1} ELSE {})
    IN  [k \in 1..Cardinality(ends) |->
            SubSeq(code, IF k = 1 THEN 1 ELSE Nth(ends, k - 1) + 1, Nth(ends, k) - 1)]

Indentation(line) == Len(line) - Len(TrimStart(line))

CodeLines == LinesOf(generated.code)

\* C13: every block header of the generated code, a line that ends with a colon,
\* is followed by a line at a deeper indentation: its body, or the `pass` that
\* stands for an empty body.
C13_HeaderHasBody ==
    Generated =>
        \A k \in 1..Len(CodeLines) :
            EndsWith(CodeLines[k], <<":">>)
            => /\ k < Len(CodeLines)
               /\ Indentation(CodeLines[k + 1]) > Indentation(CodeLines[k])

\* the total of a sequence of numbers
Total(ns) ==
    LET sum[i \in 0..Len(ns)] == IF i = 0 THEN 0 ELSE sum[i - 1] + ns[i]
    IN  sum[Len(ns)]

\* the maximal runs of consecutive combinable nodes in a list of siblings
Runs(nodes) ==
    Cardinality({i \in 1..Len(nodes) :
                    is_combinable(nodes[i]) /\ (i = 1 \/ ~is_combinable(nodes[i - 1]))})

\* the string yields a list of siblings stands for: one for each run, two for the
\* tags of an element that is not combinable, and those of the lists inside the
\* nodes that are not combinable
RECURSIVE Yields(_)
Yields(nodes) ==
    Runs(nodes)
    + Total([n \in 1..Len(nodes) |->
                IF is_combinable(nodes[n]) THEN 0
                ELSE (IF nodes[n].kind = "Element" THEN 2 ELSE 0)
                     + Total([b \in 1..Len(BodiesOf(nodes[n])) |->
                                 Yields(BodiesOf(nodes[n])[b])])])

\* C14: in every list of siblings each maximal run of combinable nodes is one
\* yield of a string, so the generated code has as many yield statements as the
\* tree has runs (and tags of elements that are not combinable).
C14_OneYieldPerRun ==
    Generated =>
        Cardinality({k \in 1..Len(CodeLines) : StartsWith(TrimStart(CodeLines[k]), <<"y", "i", "e", "l", "d", " ">>)})
            = Yields(BodyNodes(ast.nodes))

\* the constructs of a node itself that the claim gives a Range
OwnConstructs(node) ==
    CASE node.kind \in {"Expression", "Parameter", "For", "While", "With"} -> 1
      [] node.kind = "Element" ->
            Cardinality({a \in 1..Len(node.attributes) :
                            node.attributes[a].kind \in {"Dynamic", "Shorthand", "Spread"}})
      [] node.kind = "If" -> 1 + Len(node.elif_branches)
      [] node.kind = "Match" -> 1 + Len(node.cases)
      [] OTHER -> 0

\* the expressions, attribute values, conditions, iterables, patterns and
\* parameters of a tree
RECURSIVE Constructs(_)
Constructs(nodes) ==
    Total([n \in 1..Len(nodes) |->
              OwnConstructs(nodes[n])
              + Total([b \in 1..Len(BodiesOf(nodes[n])) |->
                          Constructs(BodiesOf(nodes[n])[b])])])

\* C15: when ranges are requested there is one Range for every expression,
\* dynamic, shorthand or spread attribute, condition, iterable, pattern and
\* parameter of the template.
C15_RangePerConstruct ==
    Generated /\ options.include_ranges
        => Len(generated.ranges) = Constructs(ast.nodes)

\* the parameters generate() declares in the signature
Parameters == OfKind(ast.nodes, "Parameter")

IsParameterRange(r) ==
    \E p \in 1..Len(Parameters) :
        r.source_start = Parameters[p].span.start /\ r.source_end = Parameters[p].span.end

\* the text of the header of a block, without the colon and the whitespace
HeaderText(text) == Trim(trim_end_colons(text))

\* the semantic texts of a node itself
OwnTexts(node) ==
    CASE node.kind = "Expression" -> {Trim(node.expr)}
      [] node.kind = "Element" ->
            {IF node.attributes[a].kind = "Shorthand" THEN node.attributes[a].name
             ELSE Trim(node.attributes[a].expr) :
                a \in {b \in 1..Len(node.attributes) :
                          node.attributes[b].kind \in {"Dynamic", "Shorthand", "Spread"}}}
      [] node.kind = "If" ->
            {HeaderText(node.condition)}
            \cup {HeaderText(node.elif_branches[e].condition) :
                     e \in 1..Len(node.elif_branches)}
      [] node.kind = "For" -> {HeaderText(node.iterable)}
      [] node.kind = "While" -> {HeaderText(node.condition)}
      [] node.kind = "With" -> {HeaderText(node.items)}
      [] node.kind = "Match" ->
            {HeaderText(node.expr)}
            \cup {HeaderText(node.cases[c].pattern) : c \in 1..Len(node.cases)}
      [] OTHER -> {}

\* C16: the source span of every Range that is not a parameter's is exactly the
\* text of an expression, attribute value, condition, iterable or pattern of
\* the template, without braces, colon or surrounding whitespace.
C16_SourceSpanIsSemanticText ==
    Generated =>
        \A r \in 1..Len(generated.ranges) :
            ~IsParameterRange(generated.ranges[r])
            => ByteSlice(source, generated.ranges[r].source_start,
                         generated.ranges[r].source_end)
                   \in UNION {OwnTexts(n) : n \in NodesIn(ast.nodes)}

\* C17: needs_injection is false for the ranges of the parameters and for no
\* other, and there is one Injection for every Range that is not a parameter's.
C17_ParametersNeedNoInjection ==
    Generated =>
        /\ \A r \in 1..Len(generated.ranges) :
              ~generated.ranges[r].needs_injection <=> IsParameterRange(generated.ranges[r])
        /\ Len(generated.injections)
               = Len(SelectSeq(generated.ranges, LAMBDA r : ~IsParameterRange(r)))

\* C18: every Range lies within the source and within the generated code:
\* 0 <= source_start <= source_end <= len(source) and
\* 0 <= compiled_start <= compiled_end <= len(code), the length of the code taken
\* in UTF-16 code units, which is never more than its length in bytes.
C18_SpanContainment ==
    Generated =>
        \A r \in 1..Len(generated.ranges) :
            /\ 0 <= generated.ranges[r].source_start
            /\ generated.ranges[r].source_start <= generated.ranges[r].source_end
            /\ generated.ranges[r].source_end <= ByteLen(source)
            /\ 0 <= generated.ranges[r].compiled_start
            /\ generated.ranges[r].compiled_start <= generated.ranges[r].compiled_end
            /\ generated.ranges[r].compiled_end <= Len(encode_utf16(generated.code))

\* a compilation has returned the range of a parameter and a range that is not
\* empty and lies strictly inside the source and inside the generated code
C18_Witness ==
    /\ Generated
    /\ Len(generated.ranges) >= 2
    /\ \E r \in 1..Len(generated.ranges) : IsParameterRange(generated.ranges[r])
    /\ \E r \in 1..Len(generated.ranges) :
          /\ generated.ranges[r].source_start > 0
          /\ generated.ranges[r].source_start < generated.ranges[r].source_end
          /\ generated.ranges[r].source_end < ByteLen(source)
          /\ generated.ranges[r].compiled_start < generated.ranges[r].compiled_end
          /\ generated.ranges[r].compiled_end < Len(encode_utf16(generated.code))

\* the ranges the injections are made of, in the order of the injections
InjectedRanges ==
    sort_by_source_start(SelectSeq(generated.ranges, LAMBDA r : r.needs_injection))

\* prefix, mapped span, prefix, mapped span, ..., suffix
Tiling ==
    Join([i \in 1..Len(generated.injections) |->
             generated.injections[i].prefix
             \o substring_utf16(generated.code, InjectedRanges[i].compiled_start,
                                InjectedRanges[i].compiled_end)])
    \o generated.injections[Len(generated.injections)].suffix

\* C19: the prefixes, the mapped spans and the suffix of the last injection, in
\* the order of the injections, are the generated code, each part of it once;
\* no injection but the last has a suffix.
C19_InjectionsTile ==
    Generated /\ generated.injections # <<>>
        => /\ Tiling = generated.code
           /\ \A i \in 1..(Len(generated.injections) - 1) :
                 generated.injections[i].suffix = <<>>

\* C20: the start and the end of every injection are the UTF-16 offsets of the
\* span of its range in the source.
C20_InjectionOffsetsUtf16 ==
    Generated =>
        \A i \in 1..Len(generated.injections) :
            /\ generated.injections[i].start
                   = byte_to_utf16(source, InjectedRanges[i].source_start)
            /\ generated.injections[i].end
                   = byte_to_utf16(source, InjectedRanges[i].source_end)


(***************************************************************************)
(* Tokens that close or continue a construct, met where they do not belong *)
(***************************************************************************)
IsCloser(tok) ==
    tok.t \in {"HtmlElementClose", "ComponentClose", "SlotClose", "End", "ControlContinuation"}

\* the token closes or continues the construct whose loop is on top of the stack
ClosesCurrent(f, tok) ==
    \/ f.fn = "parse_until_element_close" /\ tok.t = "HtmlElementClose" /\ tok.k = f.name
    \/ f.fn = "parse_until_component_close" /\ tok.t = "ComponentClose" /\ tok.k = f.name
    \/ f.fn = "parse_until_slot_close" /\ tok.t = "SlotClose" /\ tok.k = f.name
    \/ IsBlockFrame(f) /\ tok.t = "End"
    \/ TakesClause(f, tok)
    \/ /\ f.fn \in {"parse_match", "parse_until_case_end"}
       /\ tok.t = "ControlContinuation" /\ tok.k = "case"

Stray == Running /\ ~is_at_end /\ IsCloser(Cur) /\ ~ClosesCurrent(Top, Cur)

\* the token is consumed and nothing else happens
Discarded == pos' = pos + 1 /\ UNCHANGED <<stack, element_stack, in_header, result>>

NeverReported(r) ==
    r.status = "err" => r.error[1].kind \notin {"MismatchedCloseTag", "UnexpectedToken"}

(***************************************************************************)
(* C28 as stated.  A close tag, slot close, `end` or continuation keyword  *)
(* that does not match the construct currently being parsed is silently    *)
(* discarded: it produces no node and closes no enclosing construct; and   *)
(* no parse reports MismatchedCloseTag or UnexpectedToken.                 *)
(***************************************************************************)
C28_StrayDiscarded ==
    [][(Stray => Discarded) /\ NeverReported(result')]_vars

(***************************************************************************)
(* C28 as amended.  Such a token is discarded wherever the innermost loop  *)
(* hands it to parse_node (top level, inside an element, component or      *)
(* slot, a close tag inside a block body, anything but `end` and `case`    *)
(* inside a case body); a continuation keyword directly inside a control   *)
(* block that does not take it, and a close tag directly after a `match`   *)
(* header, make the parse fail with UnclosedBlock for that block.  No      *)
(* parse reports MismatchedCloseTag or UnexpectedToken.                    *)
(***************************************************************************)
C28_StrayDiscardedByParseNode ==
    [][/\ (Stray /\ InParseNode) => Discarded
       /\ (Stray /\ ~InParseNode) => result' = Err(UnclosedBlockError(Top))
       /\ NeverReported(result')]_vars

\* <div>, a stray `end` or continuation keyword, </div>: parsed to one element
C28_Witness ==
    /\ result.status = "ok"
    /\ Len(result.nodes) = 1
    /\ Len(tokens) = 4
    /\ tokens[1].t = "HtmlElementOpen"
    /\ tokens[2].t \in {"End", "ControlContinuation"}
    /\ tokens[3].t = "HtmlElementClose"

(***************************************************************************)
(* Nested constructs: a chain of open tags and block headers, one text,    *)
(* and the matching closers in reverse order.                              *)
(***************************************************************************)
MaxDepth == 3

Openers ==
    {Tag("HtmlElementOpen", tag, FALSE, <<>>) : tag \in {"p", "span", "div", "a", "button"}}
    \cup {Tag("ComponentOpen", "Card", FALSE, <<>>), Tok("SlotOpen", "side"),
          Line("ControlStart", "if", <<>>)}

CloserOf(tok) ==
    CASE tok.t = "HtmlElementOpen" -> Tok("HtmlElementClose", tok.k)
      [] tok.t = "ComponentOpen" -> Tok("ComponentClose", tok.k)
      [] tok.t = "SlotOpen" -> Tok("SlotClose", tok.k)
      [] tok.t = "ControlStart" -> Tok("End", "")

NestedTokens(chain) ==
    chain \o <<Tok("Text", "")>>
          \o [c \in 1..Len(chain) |-> CloserOf(chain[Len(chain) + 1 - c])]
          \o <<EofTok>>

InitNesting ==
    /\ GeneratorIdle /\ TransformerIdle /\ DaemonIdle /\ TranspilerIdle
    /\ tokens \in {NestedTokens(chain) : chain \in SeqsUpTo(Openers, MaxDepth)}
    /\ pos = 1
    /\ in_header = TRUE
    /\ element_stack = <<>>
    /\ stack = <<Frame("build", "", "", 0, "", <<>>)>>
    /\ result = Pending
    /\ TokenizerIdle

NextNesting ==
    \/ ParseLeaf
    \/ ElementOpenFail \/ ElementOpen \/ ElementClose
    \/ ComponentOpen \/ ComponentClose
    \/ SlotOpen \/ SlotClose
    \/ ControlStart \/ BlockEnd
    \/ BuildDone

SpecNesting == InitNesting /\ [][NextNesting]_vars

\* the open tags of the input, and for an element open tag the nearest
\* element open tag before it
OpenedAt == {i \in 1..Len(tokens) : tokens[i].t \in {"HtmlElementOpen", "ComponentOpen", "SlotOpen", "ControlStart"}}
ElementsBefore(i) == {j \in 1..(i - 1) : tokens[j].t = "HtmlElementOpen"}
NearestElement(i) == CHOOSE j \in ElementsBefore(i) : \A h \in ElementsBefore(i) : h <= j

ForbiddenAt ==
    {i \in OpenedAt :
        /\ tokens[i].t = "HtmlElementOpen"
        /\ ElementsBefore(i) # {}
        /\ NestingForbidden(tokens[NearestElement(i)].k, tokens[i].k)}

(***************************************************************************)
(* C29.  InvalidNesting is decided from the nearest enclosing open element *)
(* alone: components, slots and control blocks in between do not hide it,  *)
(* and elements further up are not consulted.  A nest of open constructs   *)
(* fails with InvalidNesting at the first element that its nearest         *)
(* enclosing element forbids, and parses successfully if there is none     *)
(* (so <p><span><div>x</div></span></p> parses).                           *)
(***************************************************************************)
C29_NearestElementDecides ==
    /\ Running =>
          element_stack = [e \in 1..Cardinality({j \in 1..(pos - 1) : tokens[j].t = "HtmlElementOpen"}) |->
                              tokens[CHOOSE j \in 1..(pos - 1) :
                                        /\ tokens[j].t = "HtmlElementOpen"
                                        /\ Cardinality(ElementsBefore(j)) = e - 1].k]
          \/ pos > Cardinality(OpenedAt) + 1
    /\ ~Running =>
          IF ForbiddenAt = {}
          THEN result.status = "ok"
          ELSE result = InvalidNestingAt(CHOOSE i \in ForbiddenAt : \A h \in ForbiddenAt : i <= h)

\* <p><span><div>x</div></span></p> has been parsed
C29_Witness ==
    /\ result.status = "ok"
    /\ Len(tokens) = 8
    /\ tokens[1].k = "p" /\ tokens[2].k = "span" /\ tokens[3].k = "div"

(***************************************************************************)
(* C21.  Code generation returns a line-granularity source map: a          *)
(* template whose body holds a node (content or a statement that stems     *)
(* from a source line) never yields an empty list of mappings.             *)
(***************************************************************************)
C21_BodyIsMapped ==
    Generated /\ BodyNodes(ast.nodes) # <<>> => generated.mappings # <<>>

(***************************************************************************)
(* Templates with and without await: in every place the async detection    *)
(* reads, nested in elements and blocks, and in places it does not read.   *)
(***************************************************************************)
AwaitLine == ContentLine(<<ExprPiece(<<"a", "w", "a", "i", "t", " ", "f", "(", ")">>)>>)

AsyncItems ==
    {ExprLine,
     AwaitLine,
     ContentLine(<<ExprPiece(<<"a", "w", "a", "i", "t", "e", "d">>)>>),
     CodeLine(<<"v", " ", "=", " ", "a", "w", "a", "i", "t", " ", "g", "(", ")">>),
     LoopBlock(<<"f", "o", "r", " ", "x", " ", "i", "n", " ", "a", "w", "a", "i", "t", " ", "y", ":">>, <<ExprLine>>),
     LoopBlock(<<"a", "s", "y", "n", "c", " ", "f", "o", "r", " ", "x", " ", "i", "n", " ", "y", ":">>, <<>>),
     LoopBlock(<<"w", "i", "t", "h", " ", "a", "w", "a", "i", "t", " ", "o", " ", "a", "s", " ", "f", ":">>, <<>>),
     LoopBlock(<<"a", "s", "y", "n", "c", " ", "w", "i", "t", "h", " ", "o", " ", "a", "s", " ", "f", ":">>, <<ExprLine>>),
     LoopBlock(<<"w", "h", "i", "l", "e", " ", "a", "w", "a", "i", "t", " ", "c", ":">>, <<>>),
     IfBlock(<<"i", "f", " ", "a", "w", "a", "i", "t", " ", "c", ":">>, <<>>, <<>>, None),
     IfBlock(<<"i", "f", " ", "a", ":">>, <<>>, <<ClauseLines(<<"e", "l", "i", "f", " ", "a", "w", "a", "i", "t", " ", "b", ":">>, <<>>)>>, None),
     IfBlock(<<"i", "f", " ", "a", ":">>, <<>>, <<ClauseLines(<<"e", "l", "i", "f", " ", "b", ":">>, <<AwaitLine>>)>>, Some(<<>>)),
     MatchBlock(<<"m", "a", "t", "c", "h", " ", "x", ":">>, <<ClauseLines(<<"c", "a", "s", "e", " ", "1", ":">>, <<CodeLine(<<"a", "w", "a", "i", "t", " ", "g", "(", ")">>)>>)>>),
     ElementBlock(<<"d", "i", "v">>, <<AwaitLine>>),
     ContentLine(<<ElementPiece(<<"a">>, <<[kind |-> "Dynamic", name |-> <<"b">>, expr |-> <<"a", "w", "a", "i", "t", " ", "x">>]>>,
                                <<TextPiece(<<"t">>)>>)>>)}

AsyncCompilations == {Layout(items, 0, TRUE) : items \in SeqsUpTo(AsyncItems, MaxItems)}

\* one of these templates is parsed and transformed, and generate() is called
NewAsyncCompilation ==
    /\ gen_pc = "idle"
    /\ \E compilation \in AsyncCompilations :
          /\ source' = compilation.source
          /\ ast' = [nodes |-> compilation.nodes,
                     metadata |-> TransformMetadata(compilation.nodes)]
    /\ options' \in Options
    /\ output' = NewOutput
    /\ gen_pc' = "signature"
    /\ UNCHANGED <<position, in_multiline_string, pc, locals, tokens, parser, generated, transformer, daemon, transpiler>>

NextAsync ==
    \/ NewAsyncCompilation
    \/ GenerateSignature
    \/ GenerateBody
    \/ GenerateImports
    \/ GenerateRanges

SpecAsync == InitGenerate /\ [][NextAsync]_vars

\* the await marker
HasAwait(text) == Contains(text, <<"a", "w", "a", "i", "t", " ">>)

\* the node is an expression, statement, for iterable, with items or if
\* condition with an await marker, or an async for/with
Awaits(node) ==
    \/ node.kind = "Expression" /\ HasAwait(node.expr)
    \/ node.kind = "Statement" /\ HasAwait(node.stmt)
    \/ node.kind = "For" /\ (HasAwait(node.iterable) \/ node.is_async)
    \/ node.kind = "With" /\ (HasAwait(node.items) \/ node.is_async)
    \/ node.kind = "If" /\ HasAwait(node.condition)

RECURSIVE AwaitsAnywhere(_)
AwaitsAnywhere(nodes) ==
    \E n \in 1..Len(nodes) :
        \/ Awaits(nodes[n])
        \/ \E b \in 1..Len(BodiesOf(nodes[n])) : AwaitsAnywhere(BodiesOf(nodes[n])[b])

\* a line of the code starts with the words
HasLine(code, words) == StartsWith(code, words) \/ Contains(code, <<"\n">> \o words)

C22_WitnessNotAsync ==
    /\ Generated
    /\ ~ast.metadata.is_async
    /\ Len(ast.nodes) = 1 /\ ast.nodes[1].kind = "If"
    /\ Len(ast.nodes[1].elif_branches) = 1
    /\ HasAwait(ast.nodes[1].elif_branches[1].condition)

(***************************************************************************)
(* Templates with a function of their own: a parameter, content before and *)
(* after, and a nested def or async def.                                   *)
(***************************************************************************)
InsertItems ==
    {ExprLine,
     CodeLine(<<"n", ":", " ", "i", "n", "t">>),
     ContentLine(<<ElementPiece(<<"p">>, <<>>, <<TextPiece(<<"U+00E9">>), ExprPiece(<<" ", "y", " ">>)>>)>>),
     IfBlock(<<"i", "f", " ", "a", ":">>, <<ExprLine>>, <<>>, None),
     LoopBlock(<<"d", "e", "f", " ", "g", "(", ")", ":">>, <<ExprLine>>),
     LoopBlock(<<"a", "s", "y", "n", "c", " ", "d", "e", "f", " ", "h", "(", ")", ":">>, <<>>),
     LoopBlock(<<"a", "s", "y", "n", "c", " ", "d", "e", "f", " ", "k", "(", ")", ":">>, <<CodeLine(<<"a", "w", "a", "i", "t", " ", "f", "(", ")">>)>>)}

InsertCompilations == {Layout(items, 0, TRUE) : items \in SeqsUpTo(InsertItems, MaxItems)}

\* one of these templates is parsed and transformed, and generate() is called
NewInsertCompilation ==
    /\ gen_pc = "idle"
    /\ \E compilation \in InsertCompilations :
          /\ source' = compilation.source
          /\ ast' = [nodes |-> compilation.nodes,
                     metadata |-> TransformMetadata(compilation.nodes)]
    /\ options' \in Options
    /\ output' = NewOutput
    /\ gen_pc' = "signature"
    /\ UNCHANGED <<position, in_multiline_string, pc, locals, tokens, parser, generated, transformer, daemon, transpiler>>

NextInsert ==
    \/ NewInsertCompilation
    \/ GenerateSignature
    \/ GenerateBody
    \/ GenerateImports
    \/ GenerateRanges

SpecInsert == InitGenerate /\ [][NextInsert]_vars

\* the name the template function is given
OwnName ==
    IF IsSome(options.function_name) THEN to_pascal_case(options.function_name[1])
    ELSE <<"R", "e", "n", "d", "e", "r">>

\* where the template function's own def or async def line starts (0-based)
OwnDefPos(code) ==
    LET own == {i \in 0..Len(code) :
                   /\ i = 0 \/ code[i] = "\n"
                   /\ \/ StartsWith(From(code, i + 1), <<"d", "e", "f", " ">> \o OwnName \o <<"(">>)
                      \/ StartsWith(From(code, i + 1), <<"a", "s", "y", "n", "c", " ", "d", "e", "f", " ">> \o OwnName \o <<"(">>)}
    IN  CHOOSE i \in own : \A j \in own : i <= j

\* the import block and the @component line
Inserted == ImportLines(finish(output).code, ast.metadata)

(***************************************************************************)
(* C26.  The import block and the `@component` line are inserted           *)
(* immediately before the template function's own def or async def line,   *)
(* and the generated span of every Range is moved by exactly the inserted  *)
(* length, so that each Range delimits after the insertion the generated   *)
(* text it delimited when it was recorded.                                 *)
(***************************************************************************)
C26_InsertedBeforeOwnDef ==
    Generated =>
        /\ generated.code
              = insert_str(finish(output).code, OwnDefPos(finish(output).code), Inserted)
        /\ options.include_ranges =>
              /\ Len(generated.ranges) = Len(finish(output).ranges)
              /\ \A r \in 1..Len(generated.ranges) :
                    LET recorded == finish(output).ranges[r]
                        moved == generated.ranges[r]
                    IN  /\ moved.compiled_start = recorded.compiled_start + Len(encode_utf16(Inserted))
                        /\ moved.compiled_end = recorded.compiled_end + Len(encode_utf16(Inserted))
                        /\ substring_utf16(generated.code, moved.compiled_start, moved.compiled_end)
                              = substring_utf16(finish(output).code, recorded.compiled_start,
                                                recorded.compiled_end)

(***************************************************************************)
(* The Transformer (src/transform/mod.rs).  `transformer` holds the        *)
(* plugins in the order they were added, the metadata they have collected, *)
(* the AST handed to transform(), and how often transform() has run.       *)
(* The HashSets of the metadata are sets.                                  *)
(***************************************************************************)
MaxRuns == 2

Plugins == {"HelperDetectionPlugin", "AsyncDetectionPlugin", "SlotDetectionPlugin"}

\* TransformMetadata::new
NewMetadata == [helpers_used |-> {}, is_async |-> FALSE, slots_used |-> {}]

\* the helpers HelperDetectionPlugin::enter looks for in an attribute
AttributeHelpers(attr) ==
    CASE attr.kind = "Dynamic" ->
            {helper \in {<<"r", "e", "n", "d", "e", "r", "_", "c", "l", "a", "s", "s">>, <<"r", "e", "n", "d", "e", "r", "_", "s", "t", "y", "l", "e">>, <<"r", "e", "n", "d", "e", "r", "_", "a", "t", "t", "r">>, <<"r", "e", "n", "d", "e", "r", "_", "d", "a", "t", "a">>, <<"r", "e", "n", "d", "e", "r", "_", "a", "r", "i", "a">>} :
                Contains(attr.expr, helper \o <<"(">>)}
      [] attr.kind = "Spread" ->
            {helper \in {<<"s", "p", "r", "e", "a", "d", "_", "a", "t", "t", "r", "s">>} : Contains(attr.expr, helper \o <<"(">>)}
      [] OTHER -> {}

\* HelperDetectionPlugin::enter
HelperEnter(node, metadata) ==
    CASE node.kind = "Expression" ->
            [metadata EXCEPT !.helpers_used =
                @ \cup (IF node.escape THEN {<<"e", "s", "c", "a", "p", "e">>} ELSE {})
                  \cup (IF Contains(node.expr, <<"s", "a", "f", "e", "(">>) THEN {<<"s", "a", "f", "e">>} ELSE {})]
      [] node.kind = "Element" ->
            [metadata EXCEPT !.helpers_used =
                @ \cup UNION {AttributeHelpers(node.attributes[a]) : a \in 1..Len(node.attributes)}]
      [] OTHER -> metadata

\* AsyncDetectionPlugin::enter
AsyncEnter(node, metadata) ==
    LET awaits == CASE node.kind = "Expression" -> Contains(node.expr, <<"a", "w", "a", "i", "t", " ">>)
                    [] node.kind = "Statement" -> Contains(node.stmt, <<"a", "w", "a", "i", "t", " ">>)
                    [] node.kind = "For" -> node.is_async \/ Contains(node.iterable, <<"a", "w", "a", "i", "t", " ">>)
                    [] node.kind = "With" -> node.is_async \/ Contains(node.items, <<"a", "w", "a", "i", "t", " ">>)
                    [] node.kind = "If" -> Contains(node.condition, <<"a", "w", "a", "i", "t", " ">>)
                    [] OTHER -> FALSE
    IN  IF awaits THEN [metadata EXCEPT !.is_async = TRUE] ELSE metadata

\* SlotDetectionPlugin::enter
SlotEnter(node, metadata) ==
    CASE node.kind = "Slot" ->
            [metadata EXCEPT !.slots_used = @ \cup {IF IsSome(node.name) THEN node.name[1] ELSE <<>>}]
      [] node.kind = "Expression" /\ node.expr = <<".", ".", ".">> ->
            [metadata EXCEPT !.slots_used = @ \cup {<<>>}]
      [] OTHER -> metadata

\* (mutation of enter: an await turns the flag over instead of setting it)
enterFlipsAsync(visitor, node, metadata) ==
    CASE visitor = "HelperDetectionPlugin" -> HelperEnter(node, metadata)
      [] visitor = "AsyncDetectionPlugin" ->
            IF AsyncEnter(node, NewMetadata).is_async
            THEN [metadata EXCEPT !.is_async = ~@] ELSE metadata
      [] visitor = "SlotDetectionPlugin" -> SlotEnter(node, metadata)
\* Visitor::enter of the plugin
enter(visitor, node, metadata) ==
    CASE visitor = "HelperDetectionPlugin" -> HelperEnter(node, metadata)
      [] visitor = "AsyncDetectionPlugin" -> AsyncEnter(node, metadata)
      [] visitor = "SlotDetectionPlugin" -> SlotEnter(node, metadata)

\* Transformer::visit_nodes: each node is entered, then its children are visited
RECURSIVE visit_nodes(_, _, _)
visit_nodes(nodes, visitor, metadata) ==
    LET each[n \in 0..Len(nodes)] ==
            IF n = 0 THEN metadata
            ELSE LET entered == enter(visitor, nodes[n], each[n - 1])
                     children == BodiesOf(nodes[n])
                     visited[b \in 0..Len(children)] ==
                         IF b = 0 THEN entered
                         ELSE visit_nodes(children[b], visitor, visited[b - 1])
                 IN  visited[Len(children)]
    IN  each[Len(nodes)]

\* Transformer::transform: every plugin walks the AST, in the order of the plugins
transform(plugins, nodes, metadata) ==
    LET ran[p \in 0..Len(plugins)] ==
            IF p = 0 THEN metadata ELSE visit_nodes(nodes, plugins[p], ran[p - 1])
    IN  ran[Len(plugins)]

\* standard_plugins()
standard_plugins == <<"HelperDetectionPlugin", "AsyncDetectionPlugin", "SlotDetectionPlugin">>

\* the templates the transformer is given
TransformItems ==
    {ExprLine,
     AwaitLine,
     ContentLine(<<ExprPiece(<<".", ".", ".">>)>>),
     ContentLine(<<ExprPiece(<<"s", "a", "f", "e", "(", "x", ")">>), TextPiece(<<"!">>)>>),
     ContentLine(<<ElementPiece(<<"u">>, <<[kind |-> "Dynamic", name |-> <<"c", "l", "a", "s", "s">>, expr |-> <<"r", "e", "n", "d", "e", "r", "_", "c", "l", "a", "s", "s", "(", "c", ")">>],
                                       [kind |-> "Spread", expr |-> <<"s", "p", "r", "e", "a", "d", "_", "a", "t", "t", "r", "s", "(", "a", ")">>]>>,
                                <<ExprPiece(<<"a", "w", "a", "i", "t", " ", "g", "(", ")">>)>>)>>),
     LoopBlock(<<"a", "s", "y", "n", "c", " ", "f", "o", "r", " ", "x", " ", "i", "n", " ", "y", ":">>, <<ContentLine(<<ExprPiece(<<".", ".", ".">>)>>)>>),
     IfBlock(<<"i", "f", " ", "a", ":">>, <<>>, <<ClauseLines(<<"e", "l", "i", "f", " ", "b", ":">>, <<AwaitLine>>)>>, Some(<<ExprLine>>)),
     CodeLine(<<"v", " ", "=", " ", "1">>)}

\* the ASTs of these templates, and two with slots
TransformAsts ==
    {Layout(items, 0, FALSE).nodes : items \in SeqsUpTo(TransformItems, MaxItems)}
    \cup {<<Slot(None)>>, <<Slot(Some(<<"s", "i", "d", "e">>)), Element(<<"p">>, <<>>, <<Slot(None)>>, FALSE)>>}

\* Transformer::new, and the AST it will be given
NewTransformer ==
    /\ transformer = <<>>
    /\ \E nodes \in TransformAsts :
          transformer' = [plugins |-> <<>>, metadata |-> NewMetadata, nodes |-> nodes, runs |-> 0]
    /\ UNCHANGED <<tokenizer, tokens, parser, generator, daemon, transpiler>>

\* Transformer::add
AddPlugin ==
    /\ transformer # <<>>
    /\ transformer.runs = 0
    /\ \E visitor \in Plugins :
          /\ \A p \in 1..Len(transformer.plugins) : transformer.plugins[p] # visitor
          /\ transformer' = [transformer EXCEPT !.plugins = Append(@, visitor)]
    /\ UNCHANGED <<tokenizer, tokens, parser, generator, daemon, transpiler>>

\* Transformer::transform
Transform ==
    /\ transformer # <<>>
    /\ transformer.runs < MaxRuns
    /\ transformer' = [transformer EXCEPT
                          !.metadata = transform(transformer.plugins, transformer.nodes, @),
                          !.runs = @ + 1]
    /\ UNCHANGED <<tokenizer, tokens, parser, generator, daemon, transpiler>>

InitTransform ==
    /\ GeneratorIdle /\ TransformerIdle /\ DaemonIdle /\ TranspilerIdle
    /\ TokenizerIdle
    /\ tokens = <<>>
    /\ pos = 1
    /\ in_header = TRUE
    /\ element_stack = <<>>
    /\ stack = <<>>
    /\ result = NotStarted

NextTransform == NewTransformer \/ AddPlugin \/ Transform

SpecTransform == InitTransform /\ [][NextTransform]_vars

(***************************************************************************)
(* C23.  Running the three standard passes in any order, or transform()    *)
(* more than once over the same AST, yields the same metadata              *)
(* (helpers_used, is_async, slots_used) as one run in the standard order.  *)
(***************************************************************************)
C23_OrderAndRepetition ==
    (transformer # <<>> /\ Len(transformer.plugins) = 3 /\ transformer.runs >= 1)
        => transformer.metadata = transform(standard_plugins, transformer.nodes, NewMetadata)

\* the passes have run twice, the slot pass first and the helper pass last, over
\* a template that awaits, uses a helper and has a slot
C23_Witness ==
    /\ transformer # <<>>
    /\ transformer.plugins = <<"SlotDetectionPlugin", "AsyncDetectionPlugin", "HelperDetectionPlugin">>
    /\ transformer.runs = 2
    /\ transformer.metadata.is_async
    /\ transformer.metadata.helpers_used # {}
    /\ transformer.metadata.slots_used # {}

(***************************************************************************)
(* The daemon (main.rs, run_daemon).  `daemon` holds what stands on stdin  *)
(* (a list of frames, then end of file) and how many frames were taken     *)
(* from it, the chunks handed to stdout, the last line on stderr, the      *)
(* locals msg_len, msg_buf and response, and the place in run_daemon.      *)
(* A frame is the bytes of its header, what its payload is, and whether    *)
(* the payload is all there.  The lengths of the model are below 2^31.     *)
(***************************************************************************)
MaxFrames == 2

\* u32::from_be_bytes
from_be_bytes(b) == ((b[1] * 256 + b[2]) * 256 + b[3]) * 256 + b[4]

\* u32::to_be_bytes
to_be_bytes(n) == <<n \div 16777216, (n \div 65536) % 256, (n \div 256) % 256, n % 256>>

\* DaemonRequest, with the serde defaults
DaemonRequest(content, injection) == [content |-> content, injection |-> injection, name |-> None]

\* payloads: bytes that are not UTF-8, text that is not a request, a request
NotUtf8 == [utf8 |-> FALSE, json |-> None, error |-> <<>>]
NotJson == [utf8 |-> TRUE, json |-> None, error |-> <<"e", "x", "p", "e", "c", "t", "e", "d", " ", "v", "a", "l", "u", "e", " ", "a", "t", " ", "l", "i", "n", "e", " ", "1", " ", "c", "o", "l", "u", "m", "n", " ", "1">>]
RequestJson(req) == [utf8 |-> TRUE, json |-> Some(req), error |-> <<>>]

\* Pipeline::compile: the generated code, or the error of a template whose
\* block is not closed
compile(content, opts) ==
    IF content = <<"i", "f", " ", "a", ":">>
    THEN [ok |-> FALSE, error |-> <<"U", "n", "c", "l", "o", "s", "e", "d", " ", "\"", "i", "f", "\"", " ", "b", "l", "o", "c", "k">>, code |-> <<>>]
    ELSE [ok |-> TRUE, error |-> <<>>, code |-> <<"d", "e", "f", " ", "R", "e", "n", "d", "e", "r", "(", ")", ":", "\n">>]

\* serde_json::to_string of the DaemonResponse: ranges and injections are
\* written for a request with injection
DaemonResponse(code, injection) ==
    <<"{", "\"", "c", "o", "m", "p", "i", "l", "e", "d", "\"", ":", "\"">> \o replace(code, <<"\n">>, <<"\\", "n">>) \o <<"\"", ",", "\"", "m", "a", "p", "p", "i", "n", "g", "s", "\"", ":", "[", "]">>
    \o (IF injection THEN <<",", "\"", "r", "a", "n", "g", "e", "s", "\"", ":", "[", "]", ",", "\"", "i", "n", "j", "e", "c", "t", "i", "o", "n", "s", "\"", ":", "[", "]">> ELSE <<>>) \o <<"}">>

\* fn process_request
process_request(json) ==
    IF ~IsSome(json.json)
    THEN <<"{", "\"", "e", "r", "r", "o", "r", "\"", ":", "\"", "I", "n", "v", "a", "l", "i", "d", " ", "J", "S", "O", "N", ":", " ">> \o json.error \o <<"\"", "}">>
    ELSE LET req == json.json[1]
             opts == [function_name |-> req.name, include_ranges |-> req.injection]
             compiled == compile(req.content, opts)
         IN  IF ~compiled.ok
             THEN <<"{", "\"", "e", "r", "r", "o", "r", "\"", ":", "\"">> \o replace(compiled.error, <<"\"">>, <<"\\", "\"">>) \o <<"\"", "}">>
             ELSE DaemonResponse(compiled.code, req.injection)

\* the response to a payload: process_request of its text, or the error for
\* bytes that are not UTF-8
ResponseTo(msg_buf) ==
    IF msg_buf.utf8 THEN process_request(msg_buf) ELSE <<"{", "\"", "e", "r", "r", "o", "r", "\"", ":", "\"", "I", "n", "v", "a", "l", "i", "d", " ", "U", "T", "F", "-", "8", "\"", "}">>

\* write_all of the length, write_all of the body and flush, of which one may
\* fail: the chunks stdout has taken
WriteOutcomes == {"written", "length fails", "body fails", "flush fails"}

WriteFrame(out, body, outcome) ==
    CASE outcome = "length fails" -> out
      [] outcome = "body fails" -> Append(out, to_be_bytes(ByteLen(body)))
      [] OTHER -> out \o <<to_be_bytes(ByteLen(body)), body>>

StdinFrame(header, payload, complete) ==
    [header |-> header, payload |-> payload, complete |-> complete]

\* headers of length 2 and 10,000,000 with their payloads, whole or cut short,
\* and headers that are cut short, 0, 10,000,001, 2^31 - 1 and 2 in little endian
StdinFrames ==
    {StdinFrame(<<0, 0, 0, 2>>, payload, complete) :
        payload \in {NotUtf8, NotJson, RequestJson(DaemonRequest(<<"i", "f", " ", "a", ":">>, FALSE)),
                     RequestJson(DaemonRequest(<<"{", "x", "}">>, TRUE))},
        complete \in BOOLEAN}
    \cup {StdinFrame(<<0, 152, 150, 128>>, RequestJson(DaemonRequest(<<"{", "x", "}">>, FALSE)), TRUE)}
    \cup {StdinFrame(header, NotJson, TRUE) :
             header \in {<<0, 0>>, <<0, 0, 0, 0>>, <<0, 152, 150, 129>>,
                         <<127, 255, 255, 255>>, <<2, 0, 0, 0>>}}

DaemonInputs == SeqsUpTo(StdinFrames, MaxFrames)

\* run_daemon is entered
StartDaemon ==
    /\ daemon = <<>>
    /\ \E input \in DaemonInputs :
          daemon' = [pc |-> "ready", stdin |-> input, taken |-> 0, stdout |-> <<>>,
                     stderr |-> <<>>, msg_len |-> 0, msg_buf |-> <<>>, response |-> <<>>,
                     exit_code |-> None]
    /\ UNCHANGED <<tokenizer, tokens, parser, generator, transformer, transpiler>>

\* the ready frame; process::exit(1) if it cannot be written
WriteReady ==
    /\ daemon # <<>>
    /\ daemon.pc = "ready"
    /\ \E outcome \in WriteOutcomes :
          daemon' = [daemon EXCEPT
                        !.stdout = WriteFrame(@, <<"{", "\"", "r", "e", "a", "d", "y", "\"", ":", "t", "r", "u", "e", "}", "\n">>, outcome),
                        !.pc = IF outcome = "written" THEN "read_length" ELSE "exited",
                        !.stderr = IF outcome = "written" THEN "Ready message sent"
                                   ELSE "Failed to write ready",
                        !.exit_code = IF outcome = "written" THEN None ELSE Some(1)]
    /\ UNCHANGED <<tokenizer, tokens, parser, generator, transformer, transpiler>>

\* (mutation of ReadLength: a length of 0 is let through)
ReadLengthTakesZero ==
    /\ daemon # <<>>
    /\ daemon.pc = "read_length"
    /\ LET next == daemon.taken + 1
           at_end == next > Len(daemon.stdin) \/ Len(daemon.stdin[next].header) < 4
           len == IF at_end THEN 0 ELSE from_be_bytes(daemon.stdin[next].header)
       IN  daemon' = IF at_end
                     THEN [daemon EXCEPT !.pc = "shutdown",
                                         !.stderr = "failed to read length prefix"]
                     ELSE IF len > 10000000
                     THEN [daemon EXCEPT !.pc = "shutdown", !.msg_len = len,
                                         !.stderr = "invalid message length"]
                     ELSE [daemon EXCEPT !.pc = "read_payload", !.msg_len = len]
    /\ UNCHANGED <<tokenizer, tokens, parser, generator, transformer, transpiler>>
\* read_exact of the 4-byte length prefix, and the check of the length
ReadLength ==
    /\ daemon # <<>>
    /\ daemon.pc = "read_length"
    /\ LET next == daemon.taken + 1
           at_end == next > Len(daemon.stdin) \/ Len(daemon.stdin[next].header) < 4
           len == IF at_end THEN 0 ELSE from_be_bytes(daemon.stdin[next].header)
       IN  daemon' = IF at_end
                     THEN [daemon EXCEPT !.pc = "shutdown",
                                         !.stderr = "failed to read length prefix"]
                     ELSE IF len = 0 \/ len > 10000000
                     THEN [daemon EXCEPT !.pc = "shutdown", !.msg_len = len,
                                         !.stderr = "invalid message length"]
                     ELSE [daemon EXCEPT !.pc = "read_payload", !.msg_len = len]
    /\ UNCHANGED <<tokenizer, tokens, parser, generator, transformer, transpiler>>

\* read_exact of the payload
ReadPayload ==
    /\ daemon # <<>>
    /\ daemon.pc = "read_payload"
    /\ LET frame == daemon.stdin[daemon.taken + 1]
       IN  daemon' = IF frame.complete
                     THEN [daemon EXCEPT !.pc = "respond", !.msg_buf = frame.payload,
                                         !.taken = @ + 1]
                     ELSE [daemon EXCEPT !.pc = "shutdown",
                                         !.stderr = "failed to read message payload"]
    /\ UNCHANGED <<tokenizer, tokens, parser, generator, transformer, transpiler>>

\* (mutation of Respond: bytes that are not UTF-8 end the loop)
RespondEndsOnError ==
    /\ daemon # <<>>
    /\ daemon.pc = "respond"
    /\ daemon' = [daemon EXCEPT !.response = ResponseTo(daemon.msg_buf),
                                !.pc = IF daemon.msg_buf.utf8 THEN "write" ELSE "shutdown"]
    /\ UNCHANGED <<tokenizer, tokens, parser, generator, transformer, transpiler>>
\* from_utf8 and process_request
Respond ==
    /\ daemon # <<>>
    /\ daemon.pc = "respond"
    /\ daemon' = [daemon EXCEPT !.response = ResponseTo(daemon.msg_buf), !.pc = "write"]
    /\ UNCHANGED <<tokenizer, tokens, parser, generator, transformer, transpiler>>

\* the response with its length prefix; the loop ends if it cannot be written
WriteResponse ==
    /\ daemon # <<>>
    /\ daemon.pc = "write"
    /\ \E outcome \in WriteOutcomes :
          daemon' = [daemon EXCEPT
                        !.stdout = WriteFrame(@, daemon.response, outcome),
                        !.pc = IF outcome = "written" THEN "read_length" ELSE "shutdown",
                        !.stderr = IF outcome = "written" THEN @
                                   ELSE "failed to write response"]
    /\ UNCHANGED <<tokenizer, tokens, parser, generator, transformer, transpiler>>

\* after the loop: run_daemon returns
Shutdown ==
    /\ daemon # <<>>
    /\ daemon.pc = "shutdown"
    /\ daemon' = [daemon EXCEPT !.pc = "exited", !.exit_code = Some(0)]
    /\ UNCHANGED <<tokenizer, tokens, parser, generator, transformer, transpiler>>

InitDaemon ==
    /\ GeneratorIdle /\ TransformerIdle /\ DaemonIdle /\ TranspilerIdle
    /\ TokenizerIdle
    /\ tokens = <<>>
    /\ pos = 1
    /\ in_header = TRUE
    /\ element_stack = <<>>
    /\ stack = <<>>
    /\ result = NotStarted

NextDaemon ==
    \/ StartDaemon
    \/ WriteReady
    \/ ReadLength
    \/ ReadPayload
    \/ Respond
    \/ WriteResponse
    \/ Shutdown

SpecDaemon == InitDaemon /\ [][NextDaemon]_vars

\* the daemon is a sequential program that runs on: a step that can be taken is
\* taken (a read returns, with data or at the end of the input)
SpecDaemonRuns == SpecDaemon /\ WF_vars(NextDaemon)

\* the daemon is about to read the header of a frame that is there
AtHeader ==
    /\ daemon # <<>>
    /\ daemon.pc = "read_length"
    /\ daemon.taken < Len(daemon.stdin)
    /\ Len(daemon.stdin[daemon.taken + 1].header) = 4

\* the length in the header, and 10 MB
HeaderLength == from_be_bytes(daemon.stdin[daemon.taken + 1].header)
TenMB == 10 * 1000 * 1000

(***************************************************************************)
(* C24.  When the daemon reads a frame header whose length is 0 or greater *)
(* than 10 MB, it leaves its request loop and writes no response for that  *)
(* frame: nothing is written from then on.                                 *)
(***************************************************************************)
C24_InvalidLengthEndsLoop ==
    [][/\ (AtHeader /\ (HeaderLength = 0 \/ HeaderLength > TenMB))
             => daemon'.pc = "shutdown" /\ daemon'.stdout = daemon.stdout
       /\ (AtHeader /\ HeaderLength > 0 /\ HeaderLength <= TenMB)
             => daemon'.pc = "read_payload"
       /\ (daemon # <<>> /\ daemon.pc \in {"shutdown", "exited"})
             => daemon'.stdout = daemon.stdout /\ daemon'.pc = "exited"]_vars

\* the daemon has answered one request and has ended at a header of 10,000,001
C24_Witness ==
    /\ daemon # <<>>
    /\ daemon.pc = "exited"
    /\ daemon.stderr = "invalid message length"
    /\ daemon.msg_len = TenMB + 1
    /\ daemon.taken = 1
    /\ Len(daemon.stdout) = 4

\* the frames written for the ready message and for the first n payloads
FrameOf(body) == <<to_be_bytes(ByteLen(body)), body>>

Answers(n) ==
    LET written[i \in 0..n] ==
            IF i = 0 THEN FrameOf(<<"{", "\"", "r", "e", "a", "d", "y", "\"", ":", "t", "r", "u", "e", "}", "\n">>)
            ELSE written[i - 1] \o FrameOf(ResponseTo(daemon.stdin[i].payload))
    IN  written[n]

\* an {error} response
IsErrorResponse(body) == StartsWith(body, <<"{", "\"", "e", "r", "r", "o", "r", "\"", ":", "\"">>) /\ EndsWith(body, <<"\"", "}">>)

\* the payload of no request: bytes that are not UTF-8, text that is not JSON,
\* a template that does not compile
IsBadPayload(payload) ==
    \/ ~payload.utf8
    \/ ~IsSome(payload.json)
    \/ payload.json[1].content = <<"i", "f", " ", "a", ":">>

\* between two requests, the ready frame and one response for every payload
\* read so far are on stdout, in the order of the requests, and the response to
\* a bad payload is an {error}
AnsweredInOrder ==
    (daemon # <<>> /\ daemon.pc = "read_length") =>
        /\ daemon.stdout = Answers(daemon.taken)
        /\ \A i \in 1..daemon.taken :
              IsBadPayload(daemon.stdin[i].payload)
                  => IsErrorResponse(daemon.stdout[2 * i + 2])

\* the payload of request n has been read / request n has been answered and
\* the daemon is back at reading
PayloadRead(n) == daemon # <<>> /\ daemon.pc = "respond" /\ daemon.taken = n
Answered(n) ==
    daemon # <<>> /\ daemon.pc = "read_length" /\ daemon.taken = n /\ Len(daemon.stdout) = 2 * n + 2

\* the loop was left because stdout did not take the response
WriteFailed == daemon # <<>> /\ daemon.stderr = "failed to write response"

(***************************************************************************)
(* C25 as stated.  After the ready frame, for every request frame with a   *)
(* valid length whose payload is fully read, the daemon writes exactly one *)
(* length-prefixed response before it reads the next request, in request   *)
(* order; invalid UTF-8, invalid JSON and compilation errors produce an    *)
(* {error} response and do not end the loop.                               *)
(***************************************************************************)
C25_OneResponsePerRequest ==
    /\ []AnsweredInOrder
    /\ \A n \in 1..MaxFrames : PayloadRead(n) ~> Answered(n)

(***************************************************************************)
(* C25, amended.  After the ready frame, for every request frame with a    *)
(* valid length whose payload is fully read, the daemon writes exactly one *)
(* length-prefixed response before it reads the next request, in request   *)
(* order, unless stdout does not take the response, in which case the      *)
(* daemon leaves the loop; invalid UTF-8, invalid JSON and compilation     *)
(* errors produce an {error} response and do not by themselves end the     *)
(* loop.                                                                   *)
(***************************************************************************)
C25_OneResponseUnlessWriteFails ==
    /\ []AnsweredInOrder
    /\ \A n \in 1..MaxFrames : PayloadRead(n) ~> (Answered(n) \/ WriteFailed)

\* bytes that are not UTF-8 were answered with an {error}, and the request
\* after them with the compiled code: the daemon is reading again
C25_Witness ==
    /\ Answered(2)
    /\ ~daemon.stdin[1].payload.utf8
    /\ IsErrorResponse(daemon.stdout[4])
    /\ ~IsBadPayload(daemon.stdin[2].payload)
    /\ ~IsErrorResponse(daemon.stdout[6])

(***************************************************************************)
(* lib.rs: the line-based transpiler (transpile, transpile_with).  The     *)
(* template is a sequence of classified lines, as lex leaves them; the     *)
(* loop of transpile_with takes one line at a time.  The model keeps the   *)
(* generated lines and the block bookkeeping.  Mappings, injections and    *)
(* character offsets are written by the loop and never read by it, and     *)
(* are left out; the lines below hold no attribute expression, so          *)
(* transform_html_content copies them and asks for no helper function.     *)
(***************************************************************************)
MaxBody == 4

ComponentAttr(name, value, is_spread) ==
    [name |-> name, value |-> value, is_spread |-> is_spread]

ComponentTag(name, attrs, is_self_closing, trailing_content) ==
    [name |-> name, attrs |-> attrs, is_self_closing |-> is_self_closing,
     trailing_content |-> trailing_content]

SourceLine(line_type, text, tstring_content, component) ==
    [line_type |-> line_type, text |-> text,
     tstring_content |-> tstring_content, component |-> component]

PlainLine(line_type, text) == SourceLine(line_type, text, None, None)

\* the lines templates are made of, each as classify_line and
\* parse_component_open leave it
TranspileLines ==
    {PlainLine("Empty", <<>>),
     PlainLine("Content", <<" ", " ", "<", "p", ">">>),
     SourceLine("TString", <<"t", "\"", "<", "b", ">", "\"">>, Some(<<"<", "b", ">">>), None),
     PlainLine("Control", <<"i", "f", " ", "a", ":">>),
     PlainLine("Control", <<"e", "l", "s", "e", ":">>),
     PlainLine("Control", <<"m", "a", "t", "c", "h", " ", "x", ":">>),
     PlainLine("Control", <<"c", "a", "s", "e", " ", "1", ":">>),
     PlainLine("Control", <<"d", "e", "f", " ", "f", "(", ")", ":">>),
     PlainLine("Control", <<"c", "l", "a", "s", "s", " ", "K", ":">>),
     PlainLine("End", <<"e", "n", "d">>),
     SourceLine("ComponentOpen", <<"<", "{", "C", "a", "r", "d", "}", ">">>, None,
                Some(ComponentTag(<<"C", "a", "r", "d">>, <<>>, FALSE, None))),
     SourceLine("ComponentOpen", <<"<", "{", "C", "a", "r", "d", "}", " ", "a", "=", "{", "b", "}", " ", "/", ">">>, None,
                Some(ComponentTag(<<"C", "a", "r", "d">>, <<ComponentAttr(<<"a">>, <<"b">>, FALSE)>>, TRUE, None))),
     SourceLine("ComponentOpen", <<"<", "{", "C", "a", "r", "d", "}", ">", "<", "/", "{", "C", "a", "r", "d", "}", ">">>, None,
                Some(ComponentTag(<<"C", "a", "r", "d">>, <<>>, FALSE, Some(<<"<", "/", "{", "C", "a", "r", "d", "}", ">">>)))),
     PlainLine("ComponentClose", <<"<", "/", "{", "C", "a", "r", "d", "}", ">">>),
     PlainLine("Python", <<"x", " ", "=", " ", "1">>),
     PlainLine("Comment", <<"#", " ", "c">>)}

TranspileInputs == SeqsUpTo(TranspileLines, MaxBody) \ {<<>>}

BlockType(kind) == [kind |-> kind]
FunctionBlock(insert_pos) == [kind |-> "Function", insert_pos |-> insert_pos]
ComponentBlock(name, attrs, slot_var) ==
    [kind |-> "Component", name |-> name, attrs |-> attrs, slot_var |-> slot_var]

\* Vec::last, Vec::pop and `if let Some(last) = v.last_mut() { *last = x }`
LastOf(v) == v[Len(v)]
PopOf(v) == IF v = <<>> THEN v ELSE SubSeq(v, 1, Len(v) - 1)
SetLast(v, x) == IF v = <<>> THEN v ELSE [v EXCEPT ![Len(v)] = x]

\* Vec::insert(index, element), the index counted from 0
InsertAt(v, index, element) ==
    SubSeq(v, 1, index) \o <<element>> \o SubSeq(v, index + 1, Len(v))

saturating_sub(a, b) == IF a > b THEN a - b ELSE 0
MaxOf(a, b) == IF a > b THEN a ELSE b

RECURSIVE Display(_)
Display(n) ==
    LET digit == <<"0", "1", "2", "3", "4", "5", "6", "7", "8", "9">>[(n % 10) + 1]
    IN  IF n < 10 THEN <<digit>> ELSE Display(n \div 10) \o <<digit>>

RECURSIVE IndentRepeat(_)
IndentRepeat(level) == IF level = 0 THEN <<>> ELSE <<" ", " ", " ", " ">> \o IndentRepeat(level - 1)

RECURSIVE LeadingBlanks(_)
LeadingBlanks(text) ==
    IF text # <<>> /\ Head(text) \in {" ", "\t"} THEN 1 + LeadingBlanks(Tail(text)) ELSE 0

RECURSIVE TrimEndMatches(_)
TrimEndMatches(text) ==
    IF text # <<>> /\ text[Len(text)] \in {"\r", "\n"}
    THEN TrimEndMatches(SubSeq(text, 1, Len(text) - 1))
    ELSE text

trim_bounds(text) == [start |-> LeadingBlanks(text), end |-> Len(TrimEndMatches(text))]

Trimmed(text) == SubSeq(text, trim_bounds(text).start + 1, trim_bounds(text).end)

RECURSIVE JoinComma(_)
JoinComma(ls) ==
    IF ls = <<>> THEN <<>>
    ELSE IF Len(ls) = 1 THEN ls[1]
    ELSE ls[1] \o <<",", " ">> \o JoinComma(Tail(ls))

FormatAttr(a) == IF a.is_spread THEN <<"*", "*">> \o a.value ELSE a.name \o <<"=">> \o a.value

format_args(attrs) == JoinComma([i \in 1..Len(attrs) |-> FormatAttr(attrs[i])])

\* the name between "</{" and "}>", when the text is a closing tag
parse_component_close(text) ==
    LET trimmed == Trim(text)
        closes == {i \in 4..Len(trimmed) : trimmed[i] = "}"}
        i == CHOOSE c \in closes : \A d \in closes : c <= d
    IN  IF ~StartsWith(trimmed, <<"<", "/", "{">>) \/ closes = {} THEN None
        ELSE IF \E j \in 4..(i - 1) : trimmed[j] = "{" THEN None
        ELSE IF i + 1 <= Len(trimmed) /\ trimmed[i + 1] = ">" THEN Some(SubSeq(trimmed, 4, i - 1))
        ELSE None

line_is_async_construct(text) ==
    StartsWith(Trim(text), <<"a", "s", "y", "n", "c", " ", "f", "o", "r", " ">>) \/ StartsWith(Trim(text), <<"a", "s", "y", "n", "c", " ", "w", "i", "t", "h", " ">>)

\* the syntax tree of the line holds an await expression
line_has_await(text) == Contains(text, <<"a", "w", "a", "i", "t", " ">>)

has_await(lines) ==
    \E i \in 1..Len(lines) :
        lines[i].line_type \in {"Python", "Control"} /\ line_has_await(lines[i].text)

has_async_construct(lines) ==
    \E i \in 1..Len(lines) :
        lines[i].line_type = "Control" /\ line_is_async_construct(lines[i].text)

\* find_structure on templates without parameters, docstrings and imports:
\* the blank and comment lines before the first other line go above the
\* function, and the body starts after them
find_structure(lines) ==
    LET others == {i \in 1..Len(lines) : Trim(lines[i].text) # <<>> /\ Head(Trim(lines[i].text)) # "#"}
        first == IF others = {} THEN Len(lines) + 1 ELSE CHOOSE i \in others : \A j \in others : i <= j
    IN  [leading |-> SubSeq(lines, 1, first - 1), body_start |-> first - 1]

current_parts(parts_var_stack) ==
    IF parts_var_stack = <<>> THEN <<"_", "p", "a", "r", "t", "s">> ELSE LastOf(parts_var_stack)

emit_raw(t, code) == [t EXCEPT !.output = Append(@, code)]
emit_empty(t) == [t EXCEPT !.output = Append(@, <<>>)]
emit_with_injection(t, code) == [t EXCEPT !.output = Append(@, code)]

flush_content(t) ==
    IF t.buffer = <<>> THEN t
    ELSE [t EXCEPT !.output = Append(@, IndentRepeat(t.level) \o current_parts(t.parts_var_stack)
                                        \o <<".", "a", "p", "p", "e", "n", "d", "(", "f", "\"", "\"", "\"">> \o JoinLines(t.buffer) \o <<"\"", "\"", "\"", ")">>),
                   !.buffer = <<>>,
                   !.function_has_html = SetLast(@, TRUE)]

MarkContent(t) == [t EXCEPT !.block_has_content = SetLast(@, TRUE)]

LastIsEmpty(t) == t.block_has_content # <<>> /\ ~LastOf(t.block_has_content)

\* the mutant: `pass` whether or not the block is empty
PassAlways(t) ==
    IF t.block_has_content # <<>> THEN emit_raw(t, IndentRepeat(t.level) \o <<"p", "a", "s", "s">>) ELSE t

\* `if let Some(&has_content) = block_has_content.last() { if !has_content { pass } }`
PassIfEmpty(t) ==
    IF LastIsEmpty(t) THEN emit_raw(t, IndentRepeat(t.level) \o <<"p", "a", "s", "s">>) ELSE t

TopIs(t, kind) == t.stack # <<>> /\ LastOf(t.stack).kind = kind

NewTranspiler(lines) ==
    [pc |-> "start", lines |-> lines, next |-> 1, output |-> <<>>,
     helpers_insert_pos |-> 0, level |-> 1, stack |-> <<>>,
     block_has_content |-> <<>>, buffer |-> <<>>, slot_counter |-> 0,
     parts_var_stack |-> <<<<"_", "p", "a", "r", "t", "s">>>>, function_has_html |-> <<>>, code |-> None]

\* transpile_with up to the loop: the lines above the function, its
\* signature and `_parts = []`
RECURSIVE EmitLeading(_, _)
EmitLeading(t, leading) ==
    IF leading = <<>> THEN t
    ELSE EmitLeading(IF trim_bounds(Head(leading).text).start < trim_bounds(Head(leading).text).end
                     THEN emit_with_injection(t, Trimmed(Head(leading).text))
                     ELSE emit_empty(t),
                     Tail(leading))

StartTranspile ==
    /\ transpiler # <<>>
    /\ transpiler.pc = "start"
    /\ LET structure == find_structure(transpiler.lines)
           is_async == has_await(transpiler.lines) \/ has_async_construct(transpiler.lines)
           def_kw == IF is_async THEN <<"a", "s", "y", "n", "c", " ", "d", "e", "f">> ELSE <<"d", "e", "f">>
           headed == emit_raw(emit_raw(EmitLeading(transpiler, structure.leading),
                                       def_kw \o <<" ", "T", "e", "m", "p", "l", "a", "t", "e", "(", ")", ":">>),
                              IndentRepeat(1) \o <<"_", "p", "a", "r", "t", "s", " ", "=", " ", "[", "]">>)
       IN  transpiler' = [headed EXCEPT !.pc = "lines",
                                        !.next = structure.body_start + 1,
                                        !.helpers_insert_pos = Len(headed.output)]
    /\ UNCHANGED <<tokenizer, tokens, parser, generator, transformer, daemon>>

AtLineOf(types) ==
    /\ transpiler # <<>>
    /\ transpiler.pc = "lines"
    /\ transpiler.next <= Len(transpiler.lines)
    /\ transpiler.lines[transpiler.next].line_type \in types

CurrentLine == transpiler.lines[transpiler.next]

Taken(t) == [t EXCEPT !.next = @ + 1]

TranspileEmptyLine ==
    /\ AtLineOf({"Empty"})
    /\ transpiler' = Taken(IF transpiler.buffer = <<>>
                           THEN emit_empty(transpiler)
                           ELSE [transpiler EXCEPT !.buffer = Append(@, <<>>)])
    /\ UNCHANGED <<tokenizer, tokens, parser, generator, transformer, daemon>>

TranspileContentLine ==
    /\ AtLineOf({"Content"})
    /\ LET text == CurrentLine.text
       IN  transpiler' = Taken(MarkContent(
               [transpiler EXCEPT !.buffer = Append(@, SubSeq(text, 1, trim_bounds(text).end))]))
    /\ UNCHANGED <<tokenizer, tokens, parser, generator, transformer, daemon>>

TranspileTStringLine ==
    /\ AtLineOf({"TString"})
    /\ transpiler' = Taken(IF IsSome(CurrentLine.tstring_content)
                           THEN MarkContent([transpiler EXCEPT !.buffer = Append(@, CurrentLine.tstring_content[1])])
                           ELSE transpiler)
    /\ UNCHANGED <<tokenizer, tokens, parser, generator, transformer, daemon>>

TranspileControlLine ==
    /\ AtLineOf({"Control"})
    /\ LET trimmed == Trimmed(CurrentLine.text)
           is_dedent == \E kw \in {<<"e", "l", "s", "e">>, <<"e", "l", "i", "f">>, <<"e", "x", "c", "e", "p", "t">>, <<"f", "i", "n", "a", "l", "l", "y">>} : StartsWith(trimmed, kw)
           is_case == StartsWith(trimmed, <<"c", "a", "s", "e">>)
           is_function == StartsWith(trimmed, <<"d", "e", "f", " ">>) \/ StartsWith(trimmed, <<"a", "s", "y", "n", "c", " ", "d", "e", "f", " ">>)
           is_class == StartsWith(trimmed, <<"c", "l", "a", "s", "s", " ">>)
           flushed == flush_content(transpiler)
           checked == IF is_dedent THEN MarkContent(PassIfEmpty(flushed)) ELSE flushed
           closes_case == ~is_dedent /\ is_case /\ TopIs(checked, "Case")
           popped == IF closes_case
                     THEN [PassIfEmpty(checked) EXCEPT !.stack = PopOf(@),
                                                       !.block_has_content = PopOf(@),
                                                       !.level = saturating_sub(@, 1)]
                     ELSE checked
           lvl == IF is_dedent THEN MaxOf(saturating_sub(popped.level, 1), 1) ELSE popped.level
           emitted == emit_with_injection(popped, IndentRepeat(lvl) \o trimmed)
           block_type == IF is_case THEN BlockType("Case")
                         ELSE IF StartsWith(trimmed, <<"m", "a", "t", "c", "h">>) THEN BlockType("Match")
                         ELSE IF is_function THEN FunctionBlock(Len(emitted.output))
                         ELSE IF is_class THEN BlockType("Class")
                         ELSE BlockType("Block")
           opened == IF is_dedent
                     THEN [emitted EXCEPT !.stack = Append(@, BlockType("Continuation")),
                                          !.block_has_content = Append(@, FALSE)]
                     ELSE [emitted EXCEPT !.block_has_content = Append(SetLast(@, TRUE), FALSE),
                                          !.function_has_html =
                                              IF ~is_case /\ ~StartsWith(trimmed, <<"m", "a", "t", "c", "h">>) /\ is_function
                                              THEN Append(@, FALSE) ELSE @,
                                          !.stack = Append(@, block_type),
                                          !.level = @ + 1]
       IN  transpiler' = Taken(opened)
    /\ UNCHANGED <<tokenizer, tokens, parser, generator, transformer, daemon>>

RECURSIVE PopContinuations(_)
PopContinuations(t) ==
    IF TopIs(t, "Continuation")
    THEN PopContinuations([t EXCEPT !.stack = PopOf(@), !.block_has_content = PopOf(@)])
    ELSE t

RECURSIVE PopCases(_)
PopCases(t) ==
    IF TopIs(t, "Case")
    THEN PopCases([t EXCEPT !.stack = PopOf(@), !.block_has_content = PopOf(@),
                            !.level = saturating_sub(@, 1)])
    ELSE t

\* `match stack.pop()` of the End arm
PopMainBlock(t) ==
    IF t.stack = <<>> THEN t
    ELSE LET top == LastOf(t.stack)
             rest == [t EXCEPT !.stack = PopOf(@)]
             main_empty == rest.block_has_content # <<>> /\ ~LastOf(rest.block_has_content)
             pass == IndentRepeat(rest.level) \o <<"p", "a", "s", "s">>
         IN  CASE top.kind = "Function" ->
                    LET has_html == rest.function_has_html # <<>> /\ LastOf(rest.function_has_html)
                        p == [rest EXCEPT !.function_has_html = PopOf(@),
                                          !.block_has_content = PopOf(@)]
                        body == IF has_html
                                THEN emit_raw([p EXCEPT !.output = InsertAt(@, top.insert_pos,
                                                            IndentRepeat(p.level) \o <<"_", "p", "a", "r", "t", "s", " ", "=", " ", "[", "]">>)],
                                              IndentRepeat(p.level) \o <<"r", "e", "t", "u", "r", "n", " ", "\"", "\"", ".", "j", "o", "i", "n", "(", "_", "p", "a", "r", "t", "s", ")">>)
                                ELSE IF main_empty THEN emit_raw(p, pass)
                                ELSE p
                    IN  [body EXCEPT !.level = saturating_sub(@, 1)]
               [] top.kind = "Class" ->
                    LET p == [rest EXCEPT !.block_has_content = PopOf(@)]
                        body == IF main_empty THEN emit_raw(p, pass) ELSE p
                    IN  [body EXCEPT !.level = saturating_sub(@, 1)]
               [] OTHER ->
                    [rest EXCEPT !.block_has_content = PopOf(@),
                                 !.level = saturating_sub(@, 1)]

TranspileEndLine ==
    /\ AtLineOf({"End"})
    /\ LET checked == PassIfEmpty(flush_content(transpiler))
           closed == PopMainBlock(PopCases(PopContinuations(checked)))
       IN  transpiler' = Taken([closed EXCEPT !.level = MaxOf(@, 1)])
    /\ UNCHANGED <<tokenizer, tokens, parser, generator, transformer, daemon>>

TranspileComponentOpenLine ==
    /\ AtLineOf({"ComponentOpen"})
    /\ LET flushed == flush_content(transpiler)
           opened ==
               IF ~IsSome(CurrentLine.component) THEN flushed
               ELSE LET comp == CurrentLine.component[1]
                        call == IndentRepeat(flushed.level) \o current_parts(flushed.parts_var_stack)
                                \o <<".", "a", "p", "p", "e", "n", "d", "(">> \o comp.name \o <<"(">> \o format_args(comp.attrs) \o <<")", ")">>
                        slot_var == <<"_", "s", "l", "o", "t", "_">> \o Display(flushed.slot_counter)
                        counted == emit_raw([flushed EXCEPT !.slot_counter = @ + 1],
                                            IndentRepeat(flushed.level) \o slot_var \o <<"_", "p", "a", "r", "t", "s", " ", "=", " ", "[", "]">>)
                        inline == /\ IsSome(comp.trailing_content)
                                  /\ parse_component_close(comp.trailing_content[1]) = Some(comp.name)
                        buffered == IF IsSome(comp.trailing_content)
                                    THEN [counted EXCEPT !.buffer = Append(@, comp.trailing_content[1])]
                                    ELSE counted
                    IN  IF comp.is_self_closing THEN MarkContent(emit_raw(flushed, call))
                        ELSE IF inline THEN MarkContent(emit_raw(counted, call))
                        ELSE [buffered EXCEPT
                                 !.stack = Append(@, ComponentBlock(comp.name, comp.attrs, slot_var)),
                                 !.block_has_content = Append(@, FALSE),
                                 !.parts_var_stack = Append(@, slot_var \o <<"_", "p", "a", "r", "t", "s">>)]
       IN  transpiler' = Taken(opened)
    /\ UNCHANGED <<tokenizer, tokens, parser, generator, transformer, daemon>>

TranspileComponentCloseLine ==
    /\ AtLineOf({"ComponentClose"})
    /\ LET flushed == flush_content(transpiler)
           closed ==
               IF flushed.stack = <<>> THEN flushed
               ELSE LET top == LastOf(flushed.stack)
                        popped == [flushed EXCEPT !.stack = PopOf(@)]
                    IN  IF top.kind # "Component" THEN popped
                        ELSE LET p == [popped EXCEPT !.block_has_content = PopOf(@),
                                                     !.parts_var_stack = PopOf(@)]
                                 joined == emit_raw(p, IndentRepeat(p.level) \o top.slot_var
                                                       \o <<" ", "=", " ", "\"", "\"", ".", "j", "o", "i", "n", "(">> \o top.slot_var \o <<"_", "p", "a", "r", "t", "s", ")">>)
                                 args == JoinComma(Append([i \in 1..Len(top.attrs) |-> FormatAttr(top.attrs[i])],
                                                          <<"s", "l", "o", "t", "=">> \o top.slot_var))
                             IN  MarkContent(emit_raw(joined,
                                     IndentRepeat(p.level) \o current_parts(p.parts_var_stack)
                                     \o <<".", "a", "p", "p", "e", "n", "d", "(">> \o top.name \o <<"(">> \o args \o <<")", ")">>))
       IN  transpiler' = Taken(closed)
    /\ UNCHANGED <<tokenizer, tokens, parser, generator, transformer, daemon>>

TranspileCommentOrPythonLine ==
    /\ AtLineOf({"Comment", "Python"})
    /\ LET flushed == flush_content(transpiler)
           emitted == emit_with_injection(flushed,
                          IndentRepeat(flushed.level) \o Trimmed(CurrentLine.text))
       IN  transpiler' = Taken(IF CurrentLine.line_type = "Python"
                               THEN MarkContent(emitted) ELSE emitted)
    /\ UNCHANGED <<tokenizer, tokens, parser, generator, transformer, daemon>>

\* Codegen::into_result
into_result(t) ==
    LET code == JoinLines(t.output)
    IN  IF code # <<>> /\ code[Len(code)] # "\n" THEN code \o <<"\n">> ELSE code

\* after the loop: the last content, the return line and the result
FinishTranspile ==
    /\ transpiler # <<>>
    /\ transpiler.pc = "lines"
    /\ transpiler.next > Len(transpiler.lines)
    /\ LET returned == emit_raw(flush_content(transpiler),
                                IndentRepeat(1) \o <<"r", "e", "t", "u", "r", "n", " ", "\"", "\"", ".", "j", "o", "i", "n", "(", "_", "p", "a", "r", "t", "s", ")">>)
       IN  transpiler' = [returned EXCEPT !.pc = "done", !.code = Some(into_result(returned))]
    /\ UNCHANGED <<tokenizer, tokens, parser, generator, transformer, daemon>>

InitTranspile ==
    /\ GeneratorIdle /\ TransformerIdle /\ DaemonIdle
    /\ TokenizerIdle
    /\ tokens = <<>>
    /\ pos = 1
    /\ in_header = TRUE
    /\ element_stack = <<>>
    /\ stack = <<>>
    /\ result = NotStarted
    /\ transpiler \in {NewTranspiler(lines) : lines \in TranspileInputs}

NextTranspile ==
    \/ StartTranspile
    \/ TranspileEmptyLine
    \/ TranspileContentLine
    \/ TranspileTStringLine
    \/ TranspileControlLine
    \/ TranspileEndLine
    \/ TranspileComponentOpenLine
    \/ TranspileComponentCloseLine
    \/ TranspileCommentOrPythonLine
    \/ FinishTranspile

SpecTranspile == InitTranspile /\ [][NextTranspile]_vars

(***************************************************************************)
(* The nesting of a template, read from its lines alone: the constructs    *)
(* open after line i, innermost last, or Unmatched when some line up to i  *)
(* closes or continues a construct that is not the innermost open one.     *)
(***************************************************************************)
Unmatched == <<"unmatched">>

IsDedentLine(line) ==
    /\ line.line_type = "Control"
    /\ \E kw \in {<<"e", "l", "s", "e">>, <<"e", "l", "i", "f">>, <<"e", "x", "c", "e", "p", "t">>, <<"f", "i", "n", "a", "l", "l", "y">>} : StartsWith(Trim(line.text), kw)

IsCaseLine(line) == line.line_type = "Control" /\ StartsWith(Trim(line.text), <<"c", "a", "s", "e">>)

OpensComponent(line) ==
    /\ line.line_type = "ComponentOpen"
    /\ ~Contains(line.text, <<"/", ">">>)
    /\ ~Contains(line.text, <<"<", "/", "{">>)

ConstructOf(line) ==
    LET words == Trim(line.text)
    IN  IF StartsWith(words, <<"m", "a", "t", "c", "h">>) THEN "match"
        ELSE IF StartsWith(words, <<"d", "e", "f", " ">>) \/ StartsWith(words, <<"a", "s", "y", "n", "c", " ", "d", "e", "f", " ">>) THEN "def"
        ELSE IF StartsWith(words, <<"c", "l", "a", "s", "s", " ">>) THEN "class"
        ELSE "block"

NestingAfter(open, line) ==
    LET top == open[Len(open)]
        rest == SubSeq(open, 1, Len(open) - 1)
    IN  IF open = Unmatched THEN Unmatched
        ELSE IF IsDedentLine(line)
        THEN IF open # <<>> /\ top \in {"block", "branch"} THEN Append(rest, "branch") ELSE Unmatched
        ELSE IF IsCaseLine(line)
        THEN IF open # <<>> /\ top = "match" THEN Append(open, "case")
             ELSE IF open # <<>> /\ top = "case" THEN open
             ELSE Unmatched
        ELSE IF line.line_type = "Control" THEN Append(open, ConstructOf(line))
        ELSE IF line.line_type = "End"
        THEN IF open # <<>> /\ top \in {"block", "branch", "match", "def", "class"} THEN rest
             ELSE IF open # <<>> /\ top = "case" THEN SubSeq(open, 1, Len(open) - 2)
             ELSE Unmatched
        ELSE IF OpensComponent(line) THEN Append(open, "component")
        ELSE IF line.line_type = "ComponentClose"
        THEN IF open # <<>> /\ top = "component" THEN rest ELSE Unmatched
        ELSE open

RECURSIVE Nesting(_, _)
Nesting(lines, i) == IF i = 0 THEN <<>> ELSE NestingAfter(Nesting(lines, i - 1), lines[i])

\* line i closes the innermost block, branch or case
ClosesConstruct(lines, i) ==
    LET open == Nesting(lines, i - 1)
    IN  /\ Nesting(lines, i) # Unmatched
        /\ \/ lines[i].line_type = "End"
           \/ IsDedentLine(lines[i])
           \/ IsCaseLine(lines[i]) /\ open[Len(open)] = "case"

\* nothing but blank and comment lines since the last control line
NothingInside(lines, i) ==
    \E j \in 1..(i - 1) :
        /\ lines[j].line_type = "Control"
        /\ \A k \in (j + 1)..(i - 1) : lines[k].line_type \in {"Empty", "Comment"}

PassLines(code) == {k \in 1..Len(code) : Trim(code[k]) = <<"p", "a", "s", "s">>}

\* the step takes line i of the template
TakesLine(i) ==
    /\ transpiler # <<>> /\ transpiler.pc = "lines"
    /\ transpiler.next = i
    /\ transpiler'.next = i + 1

PassEmitted == Cardinality(PassLines(transpiler'.output)) > Cardinality(PassLines(transpiler.output))

ComponentsOpen(blocks) == {i \in 1..Len(blocks) : blocks[i].kind = "Component"}

(***************************************************************************)
(* C30.  In the line-based transpiler, after every processed line,         *)
(* block_has_content has exactly one entry per entry of stack,             *)
(* parts_var_stack has exactly one entry per open Component block plus the *)
(* base `_parts`, and level is at least 1, for every sequence of control,  *)
(* end, component-open and component-close lines, unmatched ones included. *)
(***************************************************************************)
C30_StacksAligned ==
    transpiler # <<>> =>
        /\ Len(transpiler.block_has_content) = Len(transpiler.stack)
        /\ Len(transpiler.parts_var_stack) = 1 + Cardinality(ComponentsOpen(transpiler.stack))
        /\ transpiler.level >= 1

====
